---- MODULE Spec2Model ----
(***************************************************************************)
(* Model of jake_v2/path/human_path_finder.py: the trajectory bank, the    *)
(* displacement index (scipy KDTree over the displacements) and the path   *)
(* composer of class HumanPath.                                            *)
(*                                                                         *)
(* Points are pairs <<x, y>> of integers.  Distances are kept as squared   *)
(* Euclidean distances, which order and compare exactly as the distances   *)
(* themselves.  A smoothed point is a triple <<sx, sy, n>> standing for    *)
(* the point (sx / n, sy / n), so that the moving average and the int()    *)
(* truncation of the translation are computed exactly.  Bank indices are   *)
(* 0-based as in the code; paths[i + 1] is the code's self.paths[i].       *)
(***************************************************************************)
EXTENDS Integers, Sequences, FiniteSets, TLC

(* ------------------------------ bounds --------------------------------- *)

\* longest corpus file (number of stored trajectories)
MaxCorpus == 2
\* largest max_iterations a HumanPath is constructed with
MaxIter == 2
\* largest k (nearest neighbours) of a HumanPath or of a query
MaxK == 2
\* the non-zero tolerance a HumanPath is constructed with
MaxTol == 1
\* the non-zero tolerance colors are matched with
MaxColorTol == 2

\* the trajectories a corpus file is made of: a too short one (1 point), a
\* 2-point one, a 3-point one (smoothed when smoothing is on) that does not
\* start at the origin and moves to negative coordinates, and the 3-point
\* trajectory of the displacement example
TrajPool ==
    { << <<0, 0>> >>,
      << <<0, 0>>, <<3, 0>> >>,
      << <<1, 1>>, <<0, 3>>, <<-3, 1>> >>,
      << <<0, 0>>, <<10, 5>>, <<20, 20>> >> }

\* the screen positions a movement aims at, and those it starts from
Positions == { <<0, 0>>, <<3, 0>>, <<-1, 2>> }
Starts == { <<0, 0>>, <<-1, 2>> }

\* the displacements the index is queried with directly
Displacements == { <<0, 0>>, <<2, 3>> }

Corpora == UNION { [1..n -> TrajPool] : n \in 0..MaxCorpus }

Tolerances == {0, MaxTol}

(* ------------------------------ state ---------------------------------- *)

VARIABLES
    pc,                   \* "new", "failed", "idle", "loop", "after", "returned"
    corpus,               \* the content of paths_file (loaded_paths)
    paths,                \* self.paths
    displacements,        \* self.displacements
    kd_tree,              \* self.kd_tree is built (not None)
    smoothing,            \* self.smoothing
    use_random_selection, \* self.use_random_selection
    k,                    \* self.k
    use_iterative_movement, \* self.use_iterative_movement
    max_iterations,       \* self.max_iterations
    tolerance,            \* self.tolerance
    start_pos,            \* argument of the composition in progress or last made
    target_pos,           \* argument of the composition in progress or last made
    visualize,            \* argument of the composition in progress or last made
    current_pos,          \* _build_iterative_path: current_pos
    complete_path,        \* _build_iterative_path: complete_path
    iteration,            \* _build_iterative_path: iterations begun so far
    k_query,              \* the k a direct index query was made with
    queries,              \* displacements the index was asked for by the call
    picks,                \* index entries the call selected, one per query
    segments,             \* segments the call retrieved, one per query
    op,                   \* the operation that returned or raised last
    err,                  \* "none" or the exception the last operation raised
    ret,                  \* the path the last composition returned
    knn,                  \* the list find_k_nearest_paths returned last
    sel,                  \* the entry the last selection returned
    moves,                \* pointer moves issued by the last composition
    stage,                \* pixel selection / color matching: "idle" or "returned"
    fn,                   \* the pixel or color function that returned or raised last
    exc,                  \* "none" or the exception that function raised
    screenshot,           \* argument: the BGR frame
    target_hex,           \* argument: the target color as a hex string
    color_tolerance,      \* argument: tolerance of the pixel and color functions
    downsample_factor,    \* argument of smart_pixel_select
    center_falloff,       \* argument of smart_pixel_select
    rgb_screen,           \* smart_pixel_select: the downsampled frame in RGB
    target_mask,          \* smart_pixel_select: target_mask
    green_mask,           \* smart_pixel_select: green_mask
    labeled_blobs,        \* smart_pixel_select: labeled_blobs as label() returns it
    new_labeled_blobs,    \* smart_pixel_select: labeled_blobs after reindexing
    filtered_target_mask, \* smart_pixel_select: filtered_target_mask
    pixel_coords,         \* the candidate pixels the choice is made among
    probabilities,        \* smart_pixel_select: weight of every candidate
    selected_pixel,       \* smart_pixel_select: the pixel chosen, before upsampling
    random_pixel,         \* the pixel smart/random_pixel_select returned, or None
    hex1,                 \* colors_match: first argument
    hex2,                 \* colors_match: second argument
    color,                \* is_color_in_range: first argument
    target_color,         \* is_color_in_range: second argument
    matches,              \* what colors_match / is_color_in_range returned
    sample_rate,          \* self.sample_rate
    speed_range,          \* self.speed_range, in tenths: <<min, max>>
    pointer,              \* the pointer's position (pyautogui.position())
    executed_path,        \* _execute_path: the path of its last call, if called
    injected,             \* requests pyautogui carried out for the last call
    fault,                \* "none" or the exception pyautogui raised in the last call
    success,              \* what move_mouse / move_mouse_and_click returned last
    input_file,           \* augment_mouse_paths: the file input_file names
    output_file,          \* augment_mouse_paths: the file output_file names
    rotation_angles,      \* augment_mouse_paths: argument of the last call
    total_paths,          \* what augment_mouse_paths returned last (-1: nothing)
    augment_err,          \* "none" or the exception augment_mouse_paths raised
    save_file,            \* recorder: the file self.save_path names
    recorder_pc,          \* recorder: where the main thread is ("new" .. "done")
    running,              \* recorder: self.running
    recording,            \* recorder: self.recording
    recorder_start_pos,   \* recorder: self.start_pos (None or a position)
    recorder_path,        \* recorder: self.path
    recorder_paths,       \* recorder: self.paths
    listener,             \* recorder: the mouse listener delivers clicks
    on_click,             \* recorder: "idle", or "join" while _on_click waits
    sampling_thread,      \* recorder: "none", "alive" or "finished"
    sessions              \* recorder: recorders constructed so far

vars == << pc, corpus, paths, displacements, kd_tree, smoothing,
           use_random_selection, k, use_iterative_movement, max_iterations,
           tolerance, start_pos, target_pos, visualize, current_pos,
           complete_path, iteration, k_query, queries, picks, segments, op,
           err, ret, knn, sel, moves, stage, fn, exc, screenshot, target_hex,
           color_tolerance, downsample_factor, center_falloff, rgb_screen,
           target_mask, green_mask, labeled_blobs, new_labeled_blobs,
           filtered_target_mask, pixel_coords, probabilities, selected_pixel,
           random_pixel, hex1, hex2, color, target_color, matches,
           sample_rate, speed_range, pointer, executed_path, injected, fault,
           success, input_file, output_file, rotation_angles, total_paths,
           augment_err, save_file, recorder_pc, running, recording,
           recorder_start_pos, recorder_path, recorder_paths, listener,
           on_click, sampling_thread, sessions >>

bank == << paths, displacements, kd_tree >>
config == << smoothing, use_random_selection, k, use_iterative_movement,
            max_iterations, tolerance >>
call == << start_pos, target_pos, visualize, current_pos, complete_path,
           iteration, k_query, queries, picks, segments >>
human_path == << pc, corpus, bank, config, call, op, err, ret, knn, sel, moves >>
pixel == << stage, fn, exc, screenshot, target_hex, color_tolerance,
           downsample_factor, center_falloff, rgb_screen, target_mask,
           green_mask, labeled_blobs, new_labeled_blobs, filtered_target_mask,
           pixel_coords, probabilities, selected_pixel, random_pixel, hex1,
           hex2, color, target_color, matches >>
motion == << sample_rate, speed_range, pointer, executed_path, injected, fault,
            success >>
augmenter == << input_file, output_file, rotation_angles, total_paths, augment_err >>
recorder == << save_file, recorder_pc, running, recording, recorder_start_pos,
              recorder_path, recorder_paths, listener, on_click,
              sampling_thread, sessions >>

(* ----------------------------- helpers --------------------------------- *)

Min(a, b) == IF a <= b THEN a ELSE b
Max(a, b) == IF a >= b THEN a ELSE b

\* Python's s[-1]
Last(s) == s[Len(s)]

\* Python's s[1:]
Tail1(s) == IF s = << >> THEN << >> ELSE Tail(s)

\* squared Euclidean distance of two points
Dist2(p, q) == (p[1] - q[1]) * (p[1] - q[1]) + (p[2] - q[2]) * (p[2] - q[2])

\* a conversion to an integer that rounds down
IntFloor(a, n) == a \div n

\* int(a / n) for n > 0: truncation toward zero
IntTrunc(a, n) == IF a >= 0 THEN a \div n ELSE -((-a) \div n)

\* the function f with every value computed (TLC keeps [x \in S |-> e]
\* unevaluated until it is applied)
Eager(f) == f @@ << >>

\* a .npy file of trajectories as np.load reads it, and a file that does
\* not exist (os.path.exists is False)
FileOf(trajectories) == [exists |-> TRUE, paths |-> trajectories]
Absent == [exists |-> FALSE, paths |-> << >>]

\* the entry no selection has made yet
NoEntry == [index |-> -1, dist |-> 0, finite |-> FALSE]

(* ------------------- trajectory bank: _load_paths ---------------------- *)

\* a filter that lets single points through
ValidPathOnePoint(path) == Len(path) >= 1

\* "if len(path) >= 2": only paths with at least 2 points are used
ValidPath(path) == Len(path) >= 2

\* a displacement that forgets the start point
DisplacementEndOnly(path) == << Last(path)[1], Last(path)[2] >>

\* displacement = (end_x - start_x, end_y - start_y)
Displacement(path) ==
    << Last(path)[1] - path[1][1], Last(path)[2] - path[1][2] >>

\* the loop over loaded_paths, appending to self.paths and self.displacements
RECURSIVE LoadLoop(_, _, _)
LoadLoop(loaded, ps, ds) ==
    IF loaded = << >>
    THEN [paths |-> ps, displacements |-> ds]
    ELSE LET path == Head(loaded) IN
         IF ValidPath(path)
         THEN LoadLoop(Tail(loaded), Append(ps, path),
                       Append(ds, Displacement(path)))
         ELSE LoadLoop(Tail(loaded), ps, ds)

\* _load_paths on the initially empty self.paths, self.displacements
LoadPaths(loaded_paths) == LoadLoop(loaded_paths, << >>, << >>)

\* a tree builder that accepts an empty list
NoDisplacementsUnchecked(ds) == FALSE

\* _build_kd_tree: "if not self.displacements: raise ValueError"
NoDisplacements(ds) == ds = << >>

(* ------------------- displacement index: KDTree.query ------------------ *)

\* an index entry (index, distance) as the tree reports it; a missing
\* neighbour is reported with index n and an infinite distance
Entry(i, d) == [index |-> i, dist |-> Dist2(displacements[i + 1], d), finite |-> TRUE]
Missing == [index |-> Len(displacements), dist |-> 0, finite |-> FALSE]

\* the orders in which the tree may report the m nearest of its n points:
\* by non-decreasing distance, ties in any order
NearestOrders(d, m) ==
    LET n == Len(displacements)
        D(i) == Dist2(displacements[i + 1], d)
    IN { s \in [1..m -> 0..(n - 1)] :
           /\ \A i, j \in 1..m : i < j => s[i] # s[j] /\ D(s[i]) <= D(s[j])
           /\ \A j \in 0..(n - 1) :
                (\A i \in 1..m : s[i] # j) => \A i \in 1..m : D(s[i]) <= D(j) }

\* self.kd_tree.query([d], k=kq), first (and only) row: kq entries, the
\* min(kq, n) nearest first, then the missing neighbours
KDTreeQuery(d, kq) ==
    LET m == Min(kq, Len(displacements))
    IN { [i \in 1..kq |-> IF i <= m THEN Entry(s[i], d) ELSE Missing] :
           s \in NearestOrders(d, m) }

\* find_closest_path(d) with its default k = 1: the query's output has its
\* last dimension squeezed, indices[0] and distances[0] are scalars
FindClosestPathOutcomes(d) ==
    IF ~kd_tree
    THEN { [err |-> "ValueError", entry |-> NoEntry] }
    ELSE { [err |-> "none", entry |-> q[1]] : q \in KDTreeQuery(d, 1) }

\* find_k_nearest_paths(d, kq): list(zip(indices[0], distances[0])); for
\* kq = 1 the squeezed indices[0] is a scalar and zip raises TypeError
FindKNearestOutcomes(d, kq) ==
    IF ~kd_tree
    THEN { [err |-> "ValueError", list |-> << >>] }
    ELSE IF kq = 1
    THEN { [err |-> "TypeError", list |-> << >>] }
    ELSE { [err |-> "none", list |-> q] : q \in KDTreeQuery(d, kq) }

\* select_random_path_from_k_nearest(d, kq): random.choice(k_nearest)
SelectRandomOutcomes(d, kq) ==
    UNION { IF o.err # "none"
            THEN { [err |-> o.err, entry |-> NoEntry] }
            ELSE { [err |-> "none", entry |-> o.list[i]] : i \in 1..Len(o.list) }
          : o \in FindKNearestOutcomes(d, kq) }

(* --------------------- smoothing and translation ----------------------- *)

\* window_size: int = 3
window_size == 3

RECURSIVE SumCoord(_, _)
SumCoord(points, c) ==
    IF points = << >> THEN 0 ELSE points[1][c] + SumCoord(Tail(points), c)

\* a stored point as an exact fraction
Exact(path) == [i \in 1..Len(path) |-> << path[i][1], path[i][2], 1 >>]

\* _smooth_path: moving average over path[start_idx:end_idx]
SmoothPath(path) ==
    IF Len(path) < window_size
    THEN Exact(path)
    ELSE LET half_window == window_size \div 2 IN
         [j \in 1..Len(path) |->
            LET i == j - 1
                start_idx == Max(0, i - half_window)
                end_idx == Min(Len(path), i + half_window + 1)
                window_points == SubSeq(path, start_idx + 1, end_idx)
            IN << SumCoord(window_points, 1), SumCoord(window_points, 2),
                  Len(window_points) >>]

\* (int(start_pos[0] + rel_x), int(start_pos[1] + rel_y)) for every point
Translate(start, path) ==
    [i \in 1..Len(path) |->
       << IntTrunc(start[1] * path[i][3] + path[i][1], path[i][3]),
          IntTrunc(start[2] * path[i][3] + path[i][2], path[i][3]) >>]

\* "if self.smoothing: path = self._smooth_path(path)"
Smoothed(path) == IF smoothing THEN SmoothPath(path) ELSE Exact(path)

\* get_path_for_displacement(d): the selection, self.paths[path_idx] (an
\* IndexError when the entry is a missing neighbour), the smoothing
GetPathOutcomes(d) ==
    LET chosen == IF use_random_selection
                  THEN SelectRandomOutcomes(d, k)
                  ELSE FindClosestPathOutcomes(d)
    IN { IF o.err # "none"
         THEN [err |-> o.err, entry |-> o.entry, path |-> << >>]
         ELSE IF o.entry.index >= Len(paths)
         THEN [err |-> "IndexError", entry |-> o.entry, path |-> << >>]
         ELSE [err |-> "none", entry |-> o.entry,
               path |-> Smoothed(paths[o.entry.index + 1])]
       : o \in chosen }

\* displacement = (target_pos[0] - start_pos[0], target_pos[1] - start_pos[1])
QueryFor(start, target) == << target[1] - start[1], target[2] - start[2] >>

\* _build_single_path(start, target) up to the execution of the path
SinglePathOutcomes(start, target) ==
    { [err |-> o.err, entry |-> o.entry, path |-> Translate(start, o.path)]
      : o \in GetPathOutcomes(QueryFor(start, target)) }

(* --------------------- color_utils: color matching --------------------- *)

\* Python's None
None == << >>

\* the hexadecimal digits int(s, 16) reads, by value
UpperDigits ==
    << "0", "1", "2", "3", "4", "5", "6", "7", "8", "9", "A", "B", "C", "D",
       "E", "F" >>
LowerDigits ==
    << "0", "1", "2", "3", "4", "5", "6", "7", "8", "9", "a", "b", "c", "d",
       "e", "f" >>

IsHexDigit(c) == \E i \in 1..16 : UpperDigits[i] = c \/ LowerDigits[i] = c
DigitValue(c) == (CHOOSE i \in 1..16 : UpperDigits[i] = c \/ LowerDigits[i] = c) - 1

\* Python's s[a:b] for 0 <= a <= b
Slice(s, a, b) == SubSeq(s, Min(a, Len(s)) + 1, Min(b, Len(s)))

\* hex_color.lstrip('#')
RECURSIVE LStripHash(_)
LStripHash(s) ==
    IF s # << >> /\ Head(s) = "#" THEN LStripHash(Tail(s)) ELSE s

\* s.strip() of the blanks int() ignores around the number
RECURSIVE StripBlanks(_)
StripBlanks(s) ==
    IF s # << >> /\ Head(s) = " " THEN StripBlanks(Tail(s))
    ELSE IF s # << >> /\ Last(s) = " " THEN StripBlanks(SubSeq(s, 1, Len(s) - 1))
    ELSE s

\* the value of a string of hexadecimal digits
RECURSIVE DigitsValue(_)
DigitsValue(s) ==
    IF s = << >> THEN 0
    ELSE 16 * DigitsValue(SubSeq(s, 1, Len(s) - 1)) + DigitValue(Last(s))

\* int(s, 16) for a slice s of at most two characters: blanks around the
\* number and one sign before it are accepted, then only digits
ParseInt16(s) ==
    LET t == StripBlanks(s)
        signed == t # << >> /\ Head(t) \in {"+", "-"}
        digits == IF signed THEN Tail(t) ELSE t
        ok == digits # << >> /\ \A i \in 1..Len(digits) : IsHexDigit(digits[i])
    IN  [ok |-> ok,
         val |-> IF ~ok THEN 0
                 ELSE IF signed /\ Head(t) = "-" THEN -DigitsValue(digits)
                 ELSE DigitsValue(digits)]

\* hex_to_rgb(hex_color): the (r, g, b) of the first six characters after
\* the leading '#'s, or the ValueError of int()
HexToRgb(hex_color) ==
    LET h == LStripHash(hex_color)
        r == ParseInt16(Slice(h, 0, 2))
        g == ParseInt16(Slice(h, 2, 4))
        b == ParseInt16(Slice(h, 4, 6))
    IN  IF r.ok /\ g.ok /\ b.ok
        THEN [err |-> "none", rgb |-> << r.val, g.val, b.val >>]
        ELSE [err |-> "ValueError", rgb |-> << 0, 0, 0 >>]

\* a distance whose channel differences are cut off at 0
ColorDistanceSaturating(c1, c2) ==
    Max(0, c1[1] - c2[1]) * Max(0, c1[1] - c2[1])
        + Max(0, c1[2] - c2[2]) * Max(0, c1[2] - c2[2])
        + Max(0, c1[3] - c2[3]) * Max(0, c1[3] - c2[3])

\* calculate_color_distance(color1, color2), squared:
\* np.sum((color1 - color2) ** 2, axis=-1) before np.sqrt
ColorDistance2(c1, c2) ==
    (c1[1] - c2[1]) * (c1[1] - c2[1]) + (c1[2] - c2[2]) * (c1[2] - c2[2])
        + (c1[3] - c2[3]) * (c1[3] - c2[3])

\* "distance <= tolerance" for the distance whose square is d2
Within(d2, tol) == tol >= 0 /\ d2 <= tol * tol

\* colors_match(hex1, hex2, tolerance): False when a color does not parse
ColorsMatchResult(h1, h2, tol) ==
    LET rgb1 == HexToRgb(h1)
        rgb2 == HexToRgb(h2)
    IN  IF rgb1.err # "none" \/ rgb2.err # "none" THEN FALSE
        ELSE Within(ColorDistance2(rgb1.rgb, rgb2.rgb), tol)

\* is_color_in_range(color, target_color, tolerance)
IsColorInRangeResult(c, tc, tol) == Within(ColorDistance2(c, tc), tol)

(* ------------------ pixel_selection: frames and masks ------------------ *)

\* A frame (screenshot) is a background color painted over with rectangles,
\* the later over the earlier; colors are <<b, g, r>> as OpenCV stores them.
\* A rectangle covers x0 <= x < x1, y0 <= y < y1.  Cells are <<x, y>>.
Rect(x0, y0, x1, y1, bgr) == [x0 |-> x0, y0 |-> y0, x1 |-> x1, y1 |-> y1, bgr |-> bgr]

Frame(w, h, bg, rects) == [width |-> w, height |-> h, background |-> bg, rects |-> rects]

NoFrame == Frame(0, 0, <<0, 0, 0>>, << >>)

\* screenshot[y, x]
RECURSIVE PixelIn(_, _, _, _, _)
PixelIn(rects, n, bg, x, y) ==
    IF n = 0 THEN bg
    ELSE IF rects[n].x0 <= x /\ x < rects[n].x1 /\ rects[n].y0 <= y /\ y < rects[n].y1
         THEN rects[n].bgr
         ELSE PixelIn(rects, n - 1, bg, x, y)

Pixel(shot, x, y) == PixelIn(shot.rects, Len(shot.rects), shot.background, x, y)

\* the cells of a w by h grid
Cells(w, h) == (0..(w - 1)) \X (0..(h - 1))

\* the cells of a w by h grid in the order np.where lists them (row by row)
RowMajor(w, h) == [n \in 1..(w * h) |-> << (n - 1) % w, (n - 1) \div w >>]

\* cvRound: to the nearest integer, a tie to the even one (n >= 0, d > 0)
RoundHalfEven(n, d) ==
    LET q == n \div d
        r == n % d
    IN  IF 2 * r < d THEN q
        ELSE IF 2 * r > d THEN q + 1
        ELSE IF q % 2 = 0 THEN q ELSE q + 1

\* the columns (rows) at which the color of a frame may change
XCuts(shot) ==
    ({0, shot.width} \cup { shot.rects[n].x0 : n \in 1..Len(shot.rects) }
       \cup { shot.rects[n].x1 : n \in 1..Len(shot.rects) }) \cap (0..shot.width)
YCuts(shot) ==
    ({0, shot.height} \cup { shot.rects[n].y0 : n \in 1..Len(shot.rects) }
       \cup { shot.rects[n].y1 : n \in 1..Len(shot.rects) }) \cap (0..shot.height)

\* the bands <<a, b>> (a <= x < b) between neighbouring cuts; the frame has
\* one color where a band of columns crosses a band of rows
Bands(cuts) ==
    { band \in cuts \X cuts :
        band[1] < band[2] /\ ~\E c \in cuts : band[1] < c /\ c < band[2] }

\* the part of the source band (of n cells in all) that destination cell i
\* (of m) covers, in units of 1/m of a source cell: destination i spans
\* [i*n, (i+1)*n), the band spans [a*m, b*m).  It is the sum, over the
\* cells of the band, of the part of each that the destination cell covers.
Overlap(i, band, n, m) ==
    Max(0, Min((i + 1) * n, band[2] * m) - Max(i * n, band[1] * m))

\* sum, over the patches (a band of columns, a band of rows) of P, of
\* channel ch of the patch weighted by its overlap with destination (i, j)
RECURSIVE AreaSum(_, _, _, _, _, _, _)
AreaSum(shot, ch, P, i, j, w2, h2) ==
    IF P = {} THEN 0
    ELSE LET patch == CHOOSE q \in P : TRUE
         IN  Overlap(i, patch[1], shot.width, w2) * Overlap(j, patch[2], shot.height, h2)
               * Pixel(shot, patch[1][1], patch[2][1])[ch]
               + AreaSum(shot, ch, P \ {patch}, i, j, w2, h2)

\* the patches of the frame that destination cell (i, j) covers a part of
Covered(shot, i, j, w2, h2) ==
    { bx \in Bands(XCuts(shot)) : Overlap(i, bx, shot.width, w2) > 0 }
      \X { by \in Bands(YCuts(shot)) : Overlap(j, by, shot.height, h2) > 0 }

\* cv2.resize(screenshot, (w2, h2), interpolation=cv2.INTER_AREA): every
\* destination cell is the area-weighted mean of the source pixels it
\* covers, summed patch by patch
Resize(shot, w2, h2) ==
    Eager([c \in Cells(w2, h2) |->
       [ch \in 1..3 |->
          RoundHalfEven(
            AreaSum(shot, ch, Covered(shot, c[1], c[2], w2, h2), c[1], c[2], w2, h2),
            shot.width * shot.height)]])

\* the frame as it is, cell by cell (downsample_factor <= 1)
AsGrid(shot) == Eager([c \in Cells(shot.width, shot.height) |-> Pixel(shot, c[1], c[2])])

\* cv2.cvtColor(..., cv2.COLOR_BGR2RGB)
BgrToRgb(grid) == Eager([c \in DOMAIN grid |-> << grid[c][3], grid[c][2], grid[c][1] >>])

\* target_mask = color_distance <= tolerance
TargetMask(rgb, target_rgb, tol) ==
    { c \in DOMAIN rgb : Within(ColorDistance2(rgb[c], target_rgb), tol) }

\* green_mask = (g > 200) & (r < 20) & (b < 20)
GreenMask(rgb) ==
    { c \in DOMAIN rgb : rgb[c][2] > 200 /\ rgb[c][1] < 20 /\ rgb[c][3] < 20 }

(* --------------------- pixel_selection: the blobs ---------------------- *)

\* the neighbours under a cross-shaped structure (4-connectivity)
Neighbours4(c) ==
    { << c[1] + 1, c[2] >>, << c[1] - 1, c[2] >>, << c[1], c[2] + 1 >>,
      << c[1], c[2] - 1 >> }

\* structure = np.ones((3, 3)): the 8 neighbours of a cell
Neighbours8(c) ==
    { << c[1] + dx, c[2] + dy >> : dx \in -1..1, dy \in -1..1 } \ {c}

\* the component of mask that holds comp, grown from its newest cells
RECURSIVE Grow(_, _, _)
Grow(mask, comp, frontier) ==
    LET new == (UNION { Neighbours8(c) : c \in frontier }) \cap (mask \ comp)
    IN  IF new = {} THEN comp ELSE Grow(mask, comp \cup new, new)

\* the first cell of a non-empty set in row-major order
RasterFirst(S) ==
    CHOOSE c \in S : \A d \in S : c[2] < d[2] \/ (c[2] = d[2] /\ c[1] <= d[1])

\* the components of mask, in the order label() numbers them: by their
\* first cell in row-major order
RECURSIVE Components(_)
Components(mask) ==
    IF mask = {} THEN << >>
    ELSE LET comp == Grow(mask, {RasterFirst(mask)}, {RasterFirst(mask)})
         IN  << comp >> \o Components(mask \ comp)

\* labeled_blobs, num_blobs = label(target_mask, structure=structure)
Label(mask, w, h) ==
    LET comps == Components(mask)
    IN  Eager([c \in Cells(w, h) |->
           IF c \in mask THEN CHOOSE i \in 1..Len(comps) : c \in comps[i] ELSE 0])

\* len(blob_counts) - 1: the largest label
MaxLabel(lab) ==
    IF DOMAIN lab = {} THEN 0
    ELSE CHOOSE m \in { lab[c] : c \in DOMAIN lab } : \A c \in DOMAIN lab : lab[c] <= m

\* blob_counts[l] = np.bincount(labeled_blobs.flatten())[l]
BlobCount(lab, l) == Cardinality({ c \in DOMAIN lab : lab[c] = l })

\* the threshold rounded up
MinPixelsCeil(f) == (1000 + f * f - 1) \div (f * f)

\* min_pixels = 1000 // (downsample_factor ** 2)
MinPixels(f) == 1000 \div (f * f)

\* "if blob_counts[old_label] >= min_pixels"
Survives(n, f) == n >= MinPixels(f)

\* valid_blob_indices: the pairs (old_label, new_label), old labels from
\* old_label on, new labels from new_label on
RECURSIVE ValidBlobIndices(_, _, _, _)
ValidBlobIndices(lab, f, old_label, new_label) ==
    IF old_label > MaxLabel(lab) THEN << >>
    ELSE IF Survives(BlobCount(lab, old_label), f)
         THEN << << old_label, new_label >> >>
                \o ValidBlobIndices(lab, f, old_label + 1, new_label + 1)
         ELSE ValidBlobIndices(lab, f, old_label + 1, new_label)

\* a relabelling that keeps the old labels of the surviving blobs
ReindexKeep(lab, valid) ==
    Eager([c \in DOMAIN lab |->
       IF \E i \in 1..Len(valid) : valid[i][1] = lab[c] THEN lab[c] ELSE 0])

\* new_labeled_blobs[labeled_blobs == old_label] = new_label
Reindex(lab, valid) ==
    Eager([c \in DOMAIN lab |->
       IF \E i \in 1..Len(valid) : valid[i][1] = lab[c]
       THEN valid[CHOOSE i \in 1..Len(valid) : valid[i][1] = lab[c]][2]
       ELSE 0])

\* a dilation by a 3 x 3 structure
Dilate3(blob_mask, w, h) ==
    { c \in Cells(w, h) :
        \E dx \in -1..1, dy \in -1..1 : << c[1] + dx, c[2] + dy >> \in blob_mask }

\* binary_dilation(blob_mask, structure=np.ones((5, 5)))
Dilate(blob_mask, w, h) ==
    { c \in Cells(w, h) :
        \E dx \in -2..2, dy \in -2..2 : << c[1] + dx, c[2] + dy >> \in blob_mask }

\* border_mask = dilated_blob & ~blob_mask
BorderMask(blob_mask, w, h) == Dilate(blob_mask, w, h) \ blob_mask

\* a mask that takes every blob, green nearby or not
FilteredUnchecked(nlab, green, w, h, i, num_blobs) ==
    { c \in DOMAIN nlab : nlab[c] >= i /\ nlab[c] <= num_blobs }

\* filtered_target_mask after the blobs i..num_blobs have been looked at
RECURSIVE FilteredTargetMask(_, _, _, _, _, _)
FilteredTargetMask(nlab, green, w, h, i, num_blobs) ==
    IF i > num_blobs THEN {}
    ELSE LET blob_mask == { c \in DOMAIN nlab : nlab[c] = i }
         IN  (IF green \cap BorderMask(blob_mask, w, h) = {} THEN blob_mask ELSE {})
               \cup FilteredTargetMask(nlab, green, w, h, i + 1, num_blobs)

(* -------------------- pixel_selection: the choice ---------------------- *)

\* np.exp(-x) is 0.0 in double precision once x exceeds this
ExpUnderflow == 745

\* center_falloff * distance > ExpUnderflow for the distance whose square is
\* dist2 / (w * h) ^ 2, in steps that stay within 32-bit integers: with
\* ExpUnderflow * w * h = q * falloff + r, the comparison is
\* sqrt(dist2) > q + r / falloff
Underflows(dist2, w, h, falloff) ==
    IF falloff = 0 THEN FALSE
    ELSE LET q == (ExpUnderflow * w * h) \div falloff
             r == (ExpUnderflow * w * h) % falloff
         IN  IF dist2 >= (q + 1) * (q + 1) THEN TRUE
             ELSE IF dist2 < q * q THEN FALSE
             ELSE (dist2 - q * q) * falloff * falloff > 2 * q * r * falloff + r * r

\* a distance in pixels, not normalised by the width and the height
Distance2InPixels(c, w, h) ==
    LET center_x == w \div 2
        center_y == h \div 2
    IN  (c[1] - center_x) * (c[1] - center_x) + (c[2] - center_y) * (c[2] - center_y)

\* distances ** 2 in units of 1 / (width * height) ^ 2: normalized_x ** 2 +
\* normalized_y ** 2 for normalized_x = (x - center_x) / width and
\* normalized_y = (y - center_y) / height
Distance2(c, w, h) ==
    LET center_x == w \div 2
        center_y == h \div 2
    IN  (c[1] - center_x) * (c[1] - center_x) * h * h
          + (c[2] - center_y) * (c[2] - center_y) * w * w

\* np.exp(-distances * center_falloff) of one candidate, for center_falloff
\* >= 0.  All candidates of a call share center_falloff, width and height,
\* so the weight is kept as what orders it: decay is the squared distance
\* (0 for all when center_falloff is 0, where every weight is exp(0)), the
\* larger weight has the smaller decay; zero tells that it is 0.0.
Weight(c, w, h, falloff) ==
    [zero |-> Underflows(Distance2(c, w, h), w, h, falloff),
     decay |-> IF falloff = 0 THEN 0 ELSE Distance2(c, w, h)]

\* probabilities = np.exp(-distances * center_falloff), one per candidate
Weights(coords, w, h, falloff) ==
    Eager([i \in 1..Len(coords) |-> Weight(coords[i], w, h, falloff)])

\* the weight every candidate has after "np.ones(n) / n"
UniformWeight == [zero |-> FALSE, decay |-> 0]

\* probabilities / total_prob if total_prob > 0, else the uniform fallback;
\* dividing all weights by their sum keeps their order and their zeros
Normalize(weights) ==
    IF \E i \in 1..Len(weights) : ~weights[i].zero
    THEN weights
    ELSE [i \in 1..Len(weights) |-> UniformWeight]

\* random.choices(pixel_coords, weights=probabilities, k=1)[0]: any
\* candidate of non-zero weight
Choices(coords, probs) == { coords[i] : i \in { j \in 1..Len(coords) : ~probs[j].zero } }

\* an upsampling to the corner of the block
UpsampleCorner(p, f) == IF f > 1 THEN << p[1] * f, p[2] * f >> ELSE p

\* original_x = x * downsample_factor + downsample_factor // 2 (and y) when
\* downsample_factor > 1
Upsample(p, f) ==
    IF f > 1 THEN << p[1] * f + f \div 2, p[2] * f + f \div 2 >> ELSE p

\* what smart_pixel_select leaves when it raises before any mask is built
NoMasks(e) ==
    [err |-> e, rgb_screen |-> << >>, target_mask |-> {}, green_mask |-> {},
     labeled_blobs |-> << >>, new_labeled_blobs |-> << >>,
     filtered_target_mask |-> {}, pixel_coords |-> << >>,
     probabilities |-> << >>, selected_pixel |-> None, random_pixel |-> None]

\* a choice that is made without looking whether there is a candidate
ChoiceUnguarded(rgb, tm, gm, lab, nlab, ftm, coords, probs, f) ==
    LET done == [err |-> "none", rgb_screen |-> rgb, target_mask |-> tm,
                 green_mask |-> gm, labeled_blobs |-> lab,
                 new_labeled_blobs |-> nlab, filtered_target_mask |-> ftm,
                 pixel_coords |-> coords, probabilities |-> probs,
                 selected_pixel |-> None, random_pixel |-> None]
    IN  IF ftm = {} THEN { [done EXCEPT !.err = "IndexError"] }
        ELSE { [done EXCEPT !.selected_pixel = p, !.random_pixel = Upsample(p, f)]
               : p \in Choices(coords, probs) }

\* lines 131-211: the candidates, their weights, the choice and the
\* upsampling, given the masks and the label maps
ChoiceOutcomes(rgb, tm, gm, lab, nlab, ftm, coords, probs, f) ==
    LET done == [err |-> "none", rgb_screen |-> rgb, target_mask |-> tm,
                 green_mask |-> gm, labeled_blobs |-> lab,
                 new_labeled_blobs |-> nlab, filtered_target_mask |-> ftm,
                 pixel_coords |-> coords, probabilities |-> probs,
                 selected_pixel |-> None, random_pixel |-> None]
    IN  IF ftm = {} THEN { done }
        ELSE { [done EXCEPT !.selected_pixel = p, !.random_pixel = Upsample(p, f)]
               : p \in Choices(coords, probs) }

\* lines 97-172: the exclusion check, the candidates and their weights
\* (every step is computed once, then handed on)
ExclusionOutcomes(rgb, tm, gm, lab, nlab, num_blobs, f, falloff, w, h) ==
    UNION { UNION { UNION {
        ChoiceOutcomes(rgb, tm, gm, lab, nlab, ftm, coords, probs, f)
        : probs \in { Normalize(Weights(coords, w, h, falloff)) } }
        : coords \in { SelectSeq(RowMajor(w, h), LAMBDA c : c \in ftm) } }
        : ftm \in { FilteredTargetMask(nlab, gm, w, h, 1, num_blobs) } }

\* lines 64-93: the masks, the blobs and their reindexing
BlobOutcomes(rgb, target_rgb, tol, f, falloff, w, h) ==
    UNION { UNION { UNION { UNION {
        ExclusionOutcomes(rgb, tm, GreenMask(rgb), lab, nlab, Len(valid), f,
                          falloff, w, h)
        : nlab \in { Reindex(lab, valid) } }
        : valid \in { ValidBlobIndices(lab, f, 1, 1) } }
        : lab \in { Label(tm, w, h) } }
        : tm \in { TargetMask(rgb, target_rgb, tol) } }

\* smart_pixel_select(screenshot, target_hex, tolerance,
\* downsample_factor=f, center_falloff=falloff) with return_debug off: the
\* locals and the result of every run
SmartPixelSelectOutcomes(shot, hex, tol, f, falloff) ==
    LET w == IF f > 1 THEN shot.width \div f ELSE shot.width
        h == IF f > 1 THEN shot.height \div f ELSE shot.height
        target == HexToRgb(hex)
    IN  IF w = 0 \/ h = 0 THEN { NoMasks("cv2.error") }
        ELSE IF target.err # "none" THEN { NoMasks(target.err) }
        ELSE UNION { BlobOutcomes(rgb, target.rgb, tol, f, falloff, w, h)
                     : rgb \in { BgrToRgb(IF f > 1 THEN Resize(shot, w, h)
                                          ELSE AsGrid(shot)) } }

\* cv2.inRange(screenshot, lower_bound, upper_bound) at one pixel, for
\* lower_bound = max(0, c - tolerance), upper_bound = min(255, c + tolerance)
InRange(bgr, target_bgr, tol) ==
    \A ch \in 1..3 :
       /\ Max(0, target_bgr[ch] - tol) <= bgr[ch]
       /\ bgr[ch] <= Min(255, target_bgr[ch] + tol)

\* find_pixels_by_color(screenshot, target_hex, tolerance): the (x, y) of the
\* pixels in range, row by row; [] when the color does not parse
FindPixelsByColor(shot, hex, tol) ==
    LET target == HexToRgb(hex)
        target_bgr == << target.rgb[3], target.rgb[2], target.rgb[1] >>
    IN  IF target.err # "none" THEN << >>
        ELSE SelectSeq(RowMajor(shot.width, shot.height),
                       LAMBDA c : InRange(Pixel(shot, c[1], c[2]), target_bgr, tol))

(* ------------------------------ actions -------------------------------- *)

\* what the last operation left behind: its name, the exception it raised,
\* and its result
Outcome(o, e, r, kn, se, mv) ==
    /\ op' = o
    /\ err' = e
    /\ ret' = r
    /\ knn' = kn
    /\ sel' = se
    /\ moves' = mv

\* the arguments and locals of a composition
Locals(s, t, v, cur, cp, it, kq, q, pk, sg) ==
    /\ start_pos' = s
    /\ target_pos' = t
    /\ visualize' = v
    /\ current_pos' = cur
    /\ complete_path' = cp
    /\ iteration' = it
    /\ k_query' = kq
    /\ queries' = q
    /\ picks' = pk
    /\ segments' = sg

NoLocals ==
    Locals(<<0, 0>>, <<0, 0>>, FALSE, <<0, 0>>, << >>, 0, 0, << >>, << >>, << >>)

\* sample_rate: int = 50
DefaultSampleRate == 50

\* speed_range: Tuple[float, float] = (0.5, 3.0), in tenths
DefaultSpeedRange == << 5, 30 >>

\* no HumanPath has been constructed yet; paths_file holds any corpus
Init ==
    /\ pc = "new"
    /\ corpus \in Corpora
    /\ paths = << >>
    /\ displacements = << >>
    /\ kd_tree = FALSE
    /\ smoothing = FALSE
    /\ use_random_selection = FALSE
    /\ k = 0
    /\ use_iterative_movement = FALSE
    /\ max_iterations = 0
    /\ tolerance = 0
    /\ start_pos = <<0, 0>>
    /\ target_pos = <<0, 0>>
    /\ visualize = FALSE
    /\ current_pos = <<0, 0>>
    /\ complete_path = << >>
    /\ iteration = 0
    /\ k_query = 0
    /\ queries = << >>
    /\ picks = << >>
    /\ segments = << >>
    /\ op = "none"
    /\ err = "none"
    /\ ret = << >>
    /\ knn = << >>
    /\ sel = NoEntry
    /\ moves = << >>
    /\ stage = "idle"
    /\ fn = "none"
    /\ exc = "none"
    /\ screenshot = NoFrame
    /\ target_hex = << >>
    /\ color_tolerance = 0
    /\ downsample_factor = 1
    /\ center_falloff = 0
    /\ rgb_screen = << >>
    /\ target_mask = {}
    /\ green_mask = {}
    /\ labeled_blobs = << >>
    /\ new_labeled_blobs = << >>
    /\ filtered_target_mask = {}
    /\ pixel_coords = << >>
    /\ probabilities = << >>
    /\ selected_pixel = None
    /\ random_pixel = None
    /\ hex1 = << >>
    /\ hex2 = << >>
    /\ color = <<0, 0, 0>>
    /\ target_color = <<0, 0, 0>>
    /\ matches = FALSE
    /\ sample_rate = DefaultSampleRate
    /\ speed_range = DefaultSpeedRange
    /\ pointer = <<0, 0>>
    /\ executed_path = << >>
    /\ injected = << >>
    /\ fault = "none"
    /\ success = "none"
    /\ input_file = Absent
    /\ output_file = Absent
    /\ rotation_angles = << >>
    /\ total_paths = -1
    /\ augment_err = "none"
    /\ save_file = Absent
    /\ recorder_pc = "new"
    /\ running = FALSE
    /\ recording = FALSE
    /\ recorder_start_pos = None
    /\ recorder_path = << >>
    /\ recorder_paths = << >>
    /\ listener = FALSE
    /\ on_click = "idle"
    /\ sampling_thread = "none"
    /\ sessions = 0

\* HumanPath.__init__: the configuration, _load_paths, _build_kd_tree
ConstructWith(sm, rnd, kk, itm, mi, tol, sr, spd) ==
    /\ pc = "new"
    /\ sample_rate' = sr
    /\ speed_range' = spd
    /\ smoothing' = sm
    /\ use_random_selection' = rnd
    /\ k' = kk
    /\ use_iterative_movement' = itm
    /\ max_iterations' = mi
    /\ tolerance' = tol
    /\ LET loaded == LoadPaths(corpus) IN
         /\ paths' = loaded.paths
         /\ displacements' = loaded.displacements
         /\ IF NoDisplacements(loaded.displacements)
            THEN /\ kd_tree' = FALSE
                 /\ pc' = "failed"
                 /\ Outcome("__init__", "ValueError", << >>, << >>, NoEntry, << >>)
            ELSE /\ kd_tree' = TRUE
                 /\ pc' = "returned"
                 /\ Outcome("__init__", "none", << >>, << >>, NoEntry, << >>)
    /\ NoLocals
    /\ UNCHANGED << augmenter, recorder, pixel, corpus, pointer, executed_path, injected,
                    fault, success >>

\* HumanPath(paths_file, smoothing=sm, ...) with the default sample_rate and
\* speed_range
Construct(sm, rnd, kk, itm, mi, tol) ==
    ConstructWith(sm, rnd, kk, itm, mi, tol, DefaultSampleRate, DefaultSpeedRange)

\* find_closest_path(d)
FindClosestPath(d) ==
    /\ pc = "idle"
    /\ \E o \in FindClosestPathOutcomes(d) :
         Outcome("find_closest_path", o.err, << >>, << >>, o.entry, << >>)
    /\ Locals(<<0, 0>>, <<0, 0>>, FALSE, <<0, 0>>, << >>, 0, 1, <<d>>, << >>, << >>)
    /\ pc' = "returned"
    /\ UNCHANGED << augmenter, recorder, motion, pixel, corpus, bank, config >>

\* find_k_nearest_paths(d, kq)
FindKNearestPaths(d, kq) ==
    /\ pc = "idle"
    /\ \E o \in FindKNearestOutcomes(d, kq) :
         Outcome("find_k_nearest_paths", o.err, << >>, o.list, NoEntry, << >>)
    /\ Locals(<<0, 0>>, <<0, 0>>, FALSE, <<0, 0>>, << >>, 0, kq, <<d>>, << >>, << >>)
    /\ pc' = "returned"
    /\ UNCHANGED << augmenter, recorder, motion, pixel, corpus, bank, config >>

\* select_random_path_from_k_nearest(d, kq)
SelectRandomPath(d, kq) ==
    /\ pc = "idle"
    /\ \E o \in SelectRandomOutcomes(d, kq) :
         Outcome("select_random_path_from_k_nearest", o.err, << >>, << >>,
                 o.entry, << >>)
    /\ Locals(<<0, 0>>, <<0, 0>>, FALSE, <<0, 0>>, << >>, 0, kq, <<d>>, << >>, << >>)
    /\ pc' = "returned"
    /\ UNCHANGED << augmenter, recorder, motion, pixel, corpus, bank, config >>

\* move_mouse_to_target with use_iterative_movement off: _build_single_path,
\* and _execute_path unless visualize
BuildSinglePath(s, t, v) ==
    /\ pc = "idle"
    /\ ~use_iterative_movement
    /\ \E o \in SinglePathOutcomes(s, t) :
         /\ Outcome("_build_single_path", o.err,
                    IF o.err = "none" THEN o.path ELSE << >>, << >>, o.entry,
                    IF o.err = "none" /\ ~v THEN o.path ELSE << >>)
         /\ Locals(s, t, v, s, << >>, 0, 0, << QueryFor(s, t) >>,
                   IF o.entry = NoEntry THEN << >> ELSE << o.entry >>,
                   IF o.err = "none" THEN << o.path >> ELSE << >>)
    /\ pc' = "returned"
    /\ UNCHANGED << augmenter, recorder, motion, pixel, corpus, bank, config >>

\* a loop that runs one iteration too many
LoopContinuesOneMore(done) == done <= max_iterations

\* "for iteration in range(self.max_iterations)": another iteration begins
\* after done iterations
LoopContinues(done) == done < max_iterations

\* a tolerance check that excludes the boundary
CloseEnoughStrict(cur, target) == Dist2(cur, target) < tolerance * tolerance

\* "if distance_to_target <= self.tolerance" for the distance from cur
CloseEnough(cur, target) == Dist2(cur, target) <= tolerance * tolerance

\* a concatenation that keeps the first point of every segment
ExtendWhole(cp, segment_path) == cp \o segment_path

\* the accumulated path after a segment: "complete_path.extend(segment_path[1:])"
\* once the path is non-empty, "complete_path.extend(segment_path)" before
Extend(cp, segment_path) ==
    IF cp # << >> THEN cp \o Tail1(segment_path) ELSE cp \o segment_path

\* move_mouse_to_target with use_iterative_movement on: entry of
\* _build_iterative_path, up to the head of its loop
BuildIterativePath(s, t, v) ==
    /\ pc = "idle"
    /\ use_iterative_movement
    /\ pc' = IF LoopContinues(0) THEN "loop" ELSE "after"
    /\ Outcome("_build_iterative_path", "none", << >>, << >>, NoEntry, << >>)
    /\ Locals(s, t, v, s, << >>, 0, 0, << >>, << >>, << >>)
    /\ UNCHANGED << augmenter, recorder, motion, pixel, corpus, bank, config >>

\* one iteration of the loop of _build_iterative_path
IterStep ==
    /\ pc = "loop"
    /\ LET reached == CloseEnough(current_pos, target_pos)
           more == LoopContinues(iteration + 1)
       IN IF reached
          THEN /\ complete_path' = Append(complete_path, target_pos)
               /\ iteration' = iteration + 1
               /\ pc' = "after"
               /\ UNCHANGED << current_pos, k_query, queries, picks, segments,
                               op, err, ret, knn, sel, moves >>
          ELSE \E o \in SinglePathOutcomes(current_pos, target_pos) :
               /\ iteration' = iteration + 1
               /\ UNCHANGED k_query
               /\ queries' = Append(queries, QueryFor(current_pos, target_pos))
               /\ picks' = IF o.entry = NoEntry THEN picks ELSE Append(picks, o.entry)
               /\ IF o.err # "none"
                  THEN /\ pc' = "returned"
                       /\ Outcome("_build_iterative_path", o.err, << >>, << >>,
                                  NoEntry, << >>)
                       /\ UNCHANGED << current_pos, complete_path, segments >>
                  ELSE /\ UNCHANGED << op, err, ret, knn, sel, moves >>
                       /\ IF o.path = << >>
                          THEN /\ pc' = "after"
                               /\ UNCHANGED << current_pos, complete_path, segments >>
                          ELSE /\ segments' = Append(segments, o.path)
                               /\ current_pos' = Last(o.path)
                               /\ complete_path' =
                                    IF reached
                                    THEN Append(Extend(complete_path, o.path), target_pos)
                                    ELSE Extend(complete_path, o.path)
                               /\ pc' = IF reached \/ ~more THEN "after" ELSE "loop"
    /\ UNCHANGED << augmenter, recorder, motion, pixel, corpus, bank, config, start_pos, target_pos, visualize >>

\* after the loop: _execute_path unless visualize or the path is empty, and
\* "return complete_path"
IterReturn ==
    /\ pc = "after"
    /\ pc' = "returned"
    /\ ret' = complete_path
    /\ moves' = IF ~visualize /\ complete_path # << >> THEN complete_path ELSE << >>
    /\ UNCHANGED << augmenter, recorder, motion, pixel, corpus, bank, config, call, op, err, knn, sel >>

\* the caller takes the result (or the exception) of the operation; the
\* HumanPath is ready for the next operation
Resume ==
    /\ pc = "returned"
    /\ pc' = "idle"
    /\ Outcome("none", "none", << >>, << >>, NoEntry, << >>)
    /\ NoLocals
    /\ UNCHANGED << augmenter, recorder, motion, pixel, corpus, bank, config >>

\* a HumanPath used for the compositions of move_mouse_to_target
Next ==
    \/ \E sm, rnd, itm \in BOOLEAN, kk \in 1..MaxK, mi \in 0..MaxIter,
          tol \in Tolerances : Construct(sm, rnd, kk, itm, mi, tol)
    \/ \E s \in Starts, t \in Positions, v \in BOOLEAN : BuildSinglePath(s, t, v)
    \/ \E s \in Starts, t \in Positions, v \in BOOLEAN : BuildIterativePath(s, t, v)
    \/ IterStep
    \/ IterReturn
    \/ Resume

Spec == Init /\ [][Next]_vars

\* a HumanPath whose index is queried directly
NextIndex ==
    \/ \E sm, rnd, itm \in BOOLEAN, kk \in 1..MaxK, mi \in 0..MaxIter,
          tol \in Tolerances : Construct(sm, rnd, kk, itm, mi, tol)
    \/ \E d \in Displacements : FindClosestPath(d)
    \/ \E d \in Displacements, kq \in 1..MaxK : FindKNearestPaths(d, kq)
    \/ \E d \in Displacements, kq \in 1..MaxK : SelectRandomPath(d, kq)
    \/ Resume

SpecIndex == Init /\ [][NextIndex]_vars

\* compositions toward targets that no stored trajectory reaches exactly:
\* from <<0, 0>> the 2-point trajectory ends at <<3, 0>>, at distance 1 of
\* the target <<3, 1>> and at distance 2 of the target <<3, 2>>
NearCorpora ==
    { << << <<0, 0>>, <<3, 0>> >> >>,
      << << <<0, 0>>, <<3, 0>> >>, << <<1, 1>>, <<0, 3>>, <<-3, 1>> >> >> }
NearStarts == { <<0, 0>> }
NearTargets == { <<3, 1>>, <<3, 2>>, <<0, 0>> }

InitNear == Init /\ corpus \in NearCorpora

NextNear ==
    \/ \E sm, rnd, itm \in BOOLEAN, kk \in 1..MaxK, mi \in 0..MaxIter,
          tol \in Tolerances : Construct(sm, rnd, kk, itm, mi, tol)
    \/ \E s \in NearStarts, t \in NearTargets, v \in BOOLEAN :
         BuildIterativePath(s, t, v)
    \/ IterStep
    \/ IterReturn
    \/ Resume

SpecNear == InitNear /\ [][NextNear]_vars

(* ------------------- motion executor and movements --------------------- *)

\* the exception pyautogui raises when a pointer request fails
PointerFailure == "FailSafeException"

\* a request the pointer collaborator carried out: pyautogui.moveTo(x, y,
\* duration) or a click at (x, y); the duration is the fraction <<n, d>> of
\* a second
Request(kind, at, duration) == [kind |-> kind, at |-> at, duration |-> duration]

\* "duration=0.01" of the move to path[0]
FirstDuration == << 1, 100 >>

\* random.uniform(self.speed_range[0], self.speed_range[1]), in tenths: of
\* the values it can return, the two ends of the range
SpeedMultipliers == { speed_range[1], speed_range[2] }

\* duration = (1.0 / self.sample_rate) * speed_multiplier, for a multiplier
\* in tenths
Duration(speed_multiplier) == << speed_multiplier, 10 * sample_rate >>

\* the moves of _execute_path from the waypoints rest on, after the
\* requests done: every pyautogui.moveTo either raises or is carried out
RECURSIVE MoveThrough(_, _)
MoveThrough(rest, done) ==
    IF rest = << >>
    THEN { [err |-> "none", injected |-> done] }
    ELSE { [err |-> PointerFailure, injected |-> done] }
         \cup UNION { MoveThrough(Tail(rest),
                                  Append(done, Request("moveTo", Head(rest), d)))
                      : d \in IF done = << >> THEN { FirstDuration }
                              ELSE { Duration(m) : m \in SpeedMultipliers } }

\* an execution that does not move to the first waypoint
ExecutePathFromSecond(path) ==
    IF path = << >> THEN { [err |-> "none", injected |-> << >>] }
    ELSE MoveThrough(Tail(path), << >>)

\* _execute_path(path): "if not path: return", then one move per waypoint
ExecutePathOutcomes(path) ==
    IF path = << >> THEN { [err |-> "none", injected |-> << >>] }
    ELSE MoveThrough(path, << >>)

\* where the pointer is after the requests (a click does not move it)
PointerAfter(p, requests) ==
    IF requests = << >> THEN p ELSE Last(requests).at

\* the positions of the requests
Places(requests) == [i \in 1..Len(requests) |-> requests[i].at]

\* what a composition leaves behind: the exception it raised, the path it
\* returns, its locals, the path executed and the requests carried out
Composed(e, path, cp, cur, it, qs, pk, sg) ==
    [err |-> e, fault |-> "none", path |-> path, current_pos |-> cur,
     complete_path |-> cp, iteration |-> it, queries |-> qs, picks |-> pk,
     segments |-> sg, executed_path |-> << >>, injected |-> << >>]

\* the loop of _build_iterative_path towards t, from its it-th iteration on
RECURSIVE IterLoop(_, _, _, _, _, _, _)
IterLoop(t, cur, cp, it, qs, pk, sg) ==
    IF ~LoopContinues(it)
    THEN { Composed("none", cp, cp, cur, it, qs, pk, sg) }
    ELSE IF CloseEnough(cur, t)
    THEN { Composed("none", Append(cp, t), Append(cp, t), cur, it + 1, qs, pk, sg) }
    ELSE UNION {
           LET qs1 == Append(qs, QueryFor(cur, t))
               pk1 == IF o.entry = NoEntry THEN pk ELSE Append(pk, o.entry)
           IN  IF o.err # "none"
               THEN { Composed(o.err, << >>, cp, cur, it + 1, qs1, pk1, sg) }
               ELSE IF o.path = << >>
               THEN { Composed("none", cp, cp, cur, it + 1, qs1, pk1, sg) }
               ELSE IterLoop(t, Last(o.path), Extend(cp, o.path), it + 1, qs1,
                             pk1, Append(sg, o.path))
           : o \in SinglePathOutcomes(cur, t) }

\* _build_iterative_path(s, t, visualize) before "Execute the complete path"
BuildIterativePathOutcomes(s, t) == IterLoop(t, s, << >>, 0, << >>, << >>, << >>)

\* _build_single_path(s, t, visualize) before "Execute the mouse movement"
BuildSinglePathOutcomes(s, t) ==
    { Composed(o.err, IF o.err = "none" THEN o.path ELSE << >>, << >>, s, 0,
               << QueryFor(s, t) >>,
               IF o.entry = NoEntry THEN << >> ELSE << o.entry >>,
               IF o.err = "none" THEN << o.path >> ELSE << >>)
      : o \in SinglePathOutcomes(s, t) }

\* an execution that hides the exception of the pointer
ExecuteSwallowing(c, v) ==
    IF c.err # "none" \/ v \/ c.path = << >>
    THEN { c }
    ELSE { [c EXCEPT !.fault = e.err, !.executed_path = c.path,
                     !.injected = e.injected]
           : e \in ExecutePathOutcomes(c.path) }

\* the execution of the composed path c: skipped when visualizing (and, by
\* the iterative composition, for an empty path; _execute_path returns at
\* once for one); an exception of the pointer leaves _execute_path and the
\* composition
Execute(c, v) ==
    IF c.err # "none" \/ v \/ c.path = << >>
    THEN { c }
    ELSE { [c EXCEPT !.err = e.err,
                     !.fault = e.err,
                     !.executed_path = c.path,
                     !.injected = e.injected,
                     !.path = IF e.err = "none" THEN c.path ELSE << >>]
           : e \in ExecutePathOutcomes(c.path) }

\* move_mouse_to_target(s, t, visualize=v)
MoveMouseToTargetOutcomes(s, t, v) ==
    UNION { Execute(c, v)
            : c \in IF use_iterative_movement
                    THEN BuildIterativePathOutcomes(s, t)
                    ELSE BuildSinglePathOutcomes(s, t) }

\* move_mouse: "return len(path) > 0", and "return False" for any exception
MovementSuccess(o, t) ==
    IF o.err # "none" THEN "False"
    ELSE IF Len(o.path) > 0 THEN "True" ELSE "False"

\* the pyautogui request of a click type, or "none"
ClickRequest(click_type) ==
    CASE click_type = "left" -> "click"
      [] click_type = "right" -> "rightClick"
      [] click_type = "double" -> "doubleClick"
      [] OTHER -> "none"

\* move_mouse_and_click after the movement o from pointer position p: no
\* click after a failed movement or for an unknown click type; the click is
\* requested at pyautogui.position() and may raise
ClickOutcomes(o, t, click_type) ==
    LET at == PointerAfter(pointer, o.injected)
        clicked == Append(o.injected, Request(ClickRequest(click_type), at, <<0, 1>>))
    IN  IF MovementSuccess(o, t) = "False" \/ ClickRequest(click_type) = "none"
        THEN { [success |-> "False", fault |-> o.fault, injected |-> o.injected] }
        ELSE { [success |-> "True", fault |-> "none", injected |-> clicked],
               [success |-> "False", fault |-> PointerFailure, injected |-> o.injected] }

\* the locals a movement leaves behind
MovementLocals(s, t, v, o) ==
    Locals(s, t, v, o.current_pos, o.complete_path, o.iteration, 0, o.queries,
           o.picks, o.segments)

\* the state of the pointer after a call
Pointer(path, requests, f, result) ==
    /\ pointer' = PointerAfter(pointer, requests)
    /\ executed_path' = path
    /\ injected' = requests
    /\ fault' = f
    /\ success' = result

\* _execute_path(path), called directly
ExecutePath(path) ==
    /\ pc = "idle"
    /\ \E e \in ExecutePathOutcomes(path) :
         /\ Outcome("_execute_path", e.err, << >>, << >>, NoEntry, Places(e.injected))
         /\ Pointer(path, e.injected, e.err, "none")
    /\ NoLocals
    /\ pc' = "returned"
    /\ UNCHANGED << augmenter, recorder, pixel, corpus, bank, config, sample_rate, speed_range >>

\* move_mouse_to_target(s, t, visualize=v)
MoveMouseToTarget(s, t, v) ==
    /\ pc = "idle"
    /\ \E o \in MoveMouseToTargetOutcomes(s, t, v) :
         /\ Outcome("move_mouse_to_target", o.err, o.path, << >>, NoEntry,
                    Places(o.injected))
         /\ MovementLocals(s, t, v, o)
         /\ Pointer(o.executed_path, o.injected, o.fault, "none")
    /\ pc' = "returned"
    /\ UNCHANGED << augmenter, recorder, pixel, corpus, bank, config, sample_rate, speed_range >>

\* move_mouse(target_x, target_y): the movement from pyautogui.position(),
\* every exception caught
MoveMouse(target_x, target_y) ==
    /\ pc = "idle"
    /\ LET t == << target_x, target_y >> IN
       \E o \in MoveMouseToTargetOutcomes(pointer, t, FALSE) :
         /\ Outcome("move_mouse", "none", o.path, << >>, NoEntry, Places(o.injected))
         /\ MovementLocals(pointer, t, FALSE, o)
         /\ Pointer(o.executed_path, o.injected, o.fault, MovementSuccess(o, t))
    /\ pc' = "returned"
    /\ UNCHANGED << augmenter, recorder, pixel, corpus, bank, config, sample_rate, speed_range >>

\* move_mouse_and_click(target_x, target_y, click_type)
MoveMouseAndClick(target_x, target_y, click_type) ==
    /\ pc = "idle"
    /\ LET t == << target_x, target_y >> IN
       \E o \in MoveMouseToTargetOutcomes(pointer, t, FALSE) :
         /\ Outcome("move_mouse_and_click", "none", o.path, << >>, NoEntry,
                    Places(o.injected))
         /\ MovementLocals(pointer, t, FALSE, o)
         /\ \E c \in ClickOutcomes(o, t, click_type) :
              Pointer(o.executed_path, c.injected, c.fault, c.success)
    /\ pc' = "returned"
    /\ UNCHANGED << augmenter, recorder, pixel, corpus, bank, config, sample_rate, speed_range >>

\* a retrieval that smooths the stored trajectory in place
GetPathForDisplacementInPlace(d) ==
    /\ pc = "idle"
    /\ \E o \in GetPathOutcomes(d) :
         /\ Outcome("get_path_for_displacement", o.err, o.path, << >>, o.entry, << >>)
         /\ paths' = IF o.err = "none"
                     THEN [paths EXCEPT ![o.entry.index + 1] = Translate(<<0, 0>>, o.path)]
                     ELSE paths
    /\ Locals(<<0, 0>>, <<0, 0>>, FALSE, <<0, 0>>, << >>, 0, 0, <<d>>, << >>, << >>)
    /\ pc' = "returned"
    /\ UNCHANGED << augmenter, recorder, motion, pixel, corpus, displacements, kd_tree, config >>

\* get_path_for_displacement(d): the path it returns has exact fractions as
\* points, <<sx, sy, n>> for (sx / n, sy / n)
GetPathForDisplacement(d) ==
    /\ pc = "idle"
    /\ \E o \in GetPathOutcomes(d) :
         Outcome("get_path_for_displacement", o.err, o.path, << >>, o.entry, << >>)
    /\ Locals(<<0, 0>>, <<0, 0>>, FALSE, <<0, 0>>, << >>, 0, 0, <<d>>, << >>, << >>)
    /\ pc' = "returned"
    /\ UNCHANGED << augmenter, recorder, motion, pixel, corpus, bank, config >>

\* get_path_info(d, use_random_selection=rnd, k=kq): of the dict it returns,
\* path_index and distance are kept in sel
GetPathInfo(d, rnd, kq) ==
    /\ pc = "idle"
    /\ \E o \in IF rnd THEN SelectRandomOutcomes(d, kq) ELSE FindClosestPathOutcomes(d) :
         Outcome("get_path_info",
                 IF o.err = "none" /\ o.entry.index >= Len(paths)
                 THEN "IndexError" ELSE o.err,
                 << >>, << >>, o.entry, << >>)
    /\ Locals(<<0, 0>>, <<0, 0>>, FALSE, <<0, 0>>, << >>, 0, kq, <<d>>, << >>, << >>)
    /\ pc' = "returned"
    /\ UNCHANGED << augmenter, recorder, motion, pixel, corpus, bank, config >>

\* the caller takes the result (or the exception) of the operation; before
\* the next operation the pointer is wherever the user left it
ResumeAt(p) ==
    /\ pc = "returned"
    /\ pc' = "idle"
    /\ Outcome("none", "none", << >>, << >>, NoEntry, << >>)
    /\ NoLocals
    /\ pointer' = p
    /\ executed_path' = << >>
    /\ injected' = << >>
    /\ fault' = "none"
    /\ success' = "none"
    /\ UNCHANGED << augmenter, recorder, pixel, corpus, bank, config, sample_rate, speed_range >>

\* the corpora, configurations and calls of the movements: a path that
\* reaches its target exactly, one that ends next to it, a bank of
\* trajectories that do not start at the origin
MoveCorpora ==
    { << << <<0, 0>>, <<3, 0>> >> >>,
      << << <<0, 0>>, <<3, 0>> >>, << <<1, 1>>, <<0, 3>>, <<-3, 1>> >> >> }
Pacings ==
    { [sample_rate |-> DefaultSampleRate, speed_range |-> DefaultSpeedRange],
      [sample_rate |-> 100, speed_range |-> << 10, 10 >>] }
MoveTargets == { <<3, 0>>, <<3, 1>>, <<0, 0>> }
ClickTypes == { "left", "right", "double", "middle" }
ExecutedPaths ==
    { << >>, << <<2, 2>> >>, << <<0, 0>>, <<1, 2>>, <<3, 1>> >> }

InitMove == Init /\ corpus \in MoveCorpora

NextMove ==
    \/ \E sm, rnd, itm \in BOOLEAN, mi \in {1, MaxIter}, tol \in Tolerances,
          pace \in Pacings :
         ConstructWith(sm, rnd, MaxK, itm, mi, tol, pace.sample_rate, pace.speed_range)
    \/ \E path \in ExecutedPaths : ExecutePath(path)
    \/ \E s \in NearStarts, t \in MoveTargets, v \in BOOLEAN : MoveMouseToTarget(s, t, v)
    \/ \E t \in MoveTargets : MoveMouse(t[1], t[2])
    \/ \E t \in MoveTargets, ct \in ClickTypes : MoveMouseAndClick(t[1], t[2], ct)
    \/ \E d \in Displacements : GetPathForDisplacement(d)
    \/ \E d \in Displacements, rnd \in BOOLEAN, kq \in 1..MaxK : GetPathInfo(d, rnd, kq)
    \/ \E d \in Displacements : FindClosestPath(d)
    \/ \E d \in Displacements, kq \in 1..MaxK : FindKNearestPaths(d, kq)
    \/ \E d \in Displacements, kq \in 1..MaxK : SelectRandomPath(d, kq)
    \/ \E p \in NearStarts : ResumeAt(p)

SpecMove == InitMove /\ [][NextMove]_vars

(* ------------------- path_augmenter: the rotations --------------------- *)

\* (cos(angle_rad), sin(angle_rad)) for an angle of whole quarter turns
CosSin(angle_degrees) ==
    CASE angle_degrees % 360 = 0 -> << 1, 0 >>
      [] angle_degrees % 360 = 90 -> << 0, 1 >>
      [] angle_degrees % 360 = 180 -> << -1, 0 >>
      [] angle_degrees % 360 = 270 -> << 0, -1 >>

\* a rotation in the other direction
RotatePointClockwise(x, y, angle_degrees) ==
    LET cos_a == CosSin(angle_degrees)[1]
        sin_a == CosSin(angle_degrees)[2]
    IN  << x * cos_a + y * sin_a, y * cos_a - x * sin_a >>

\* rotate_point(x, y, angle_degrees)
RotatePoint(x, y, angle_degrees) ==
    LET cos_a == CosSin(angle_degrees)[1]
        sin_a == CosSin(angle_degrees)[2]
    IN  << x * cos_a - y * sin_a, x * sin_a + y * cos_a >>

\* rotate_path(path, angle_degrees)
RotatePath(path, angle_degrees) ==
    [i \in 1..Len(path) |-> RotatePoint(path[i][1], path[i][2], angle_degrees)]

\* "if len(path) > 0": only non-empty paths are rotated
NonEmpty(path) == Len(path) > 0

\* the inner loop "for i, path in enumerate(original_paths)" for one angle
RECURSIVE RotateAll(_, _)
RotateAll(original_paths, angle) ==
    IF original_paths = << >> THEN << >>
    ELSE (IF NonEmpty(Head(original_paths))
          THEN << RotatePath(Head(original_paths), angle) >> ELSE << >>)
         \o RotateAll(Tail(original_paths), angle)

\* the outer loop "for angle in rotation_angles"
RECURSIVE Augmented(_, _)
Augmented(original_paths, angles) ==
    IF angles = << >> THEN << >>
    ELSE RotateAll(original_paths, Head(angles))
         \o Augmented(original_paths, Tail(angles))

\* augment_mouse_paths(input_file, output_file, rotation_angles): 0 when
\* the input does not exist; the augmented list is saved before its length
\* is divided by len(original_paths) for the report, and returned after
AugmentOutcome(input, output, angles) ==
    IF ~input.exists
    THEN [err |-> "none", output |-> output, total_paths |-> 0]
    ELSE LET augmented_paths == input.paths \o Augmented(input.paths, angles)
         IN  IF Len(input.paths) = 0
             THEN [err |-> "ZeroDivisionError", output |-> FileOf(augmented_paths),
                   total_paths |-> -1]
             ELSE [err |-> "none", output |-> FileOf(augmented_paths),
                   total_paths |-> Len(augmented_paths)]

\* the recorded corpus is put where augment_mouse_paths looks for it, and
\* nothing of an earlier augmentation is kept
ProvideInput(trajectories) ==
    /\ input_file' = FileOf(trajectories)
    /\ output_file' = Absent
    /\ rotation_angles' = << >>
    /\ total_paths' = -1
    /\ augment_err' = "none"
    /\ UNCHANGED << recorder, human_path, motion, pixel >>

\* augment_mouse_paths(rotation_angles=angles)
AugmentMousePaths(angles) ==
    /\ LET o == AugmentOutcome(input_file, output_file, angles) IN
         /\ output_file' = o.output
         /\ total_paths' = o.total_paths
         /\ augment_err' = o.err
    /\ rotation_angles' = angles
    /\ UNCHANGED << input_file, recorder, human_path, motion, pixel >>

\* the trajectories of the input files: an empty one, a single point, two
\* points, three points that do not start at the origin
RecordedPool ==
    { << >>,
      << <<0, 0>> >>,
      << <<0, 0>>, <<3, 0>> >>,
      << <<1, 1>>, <<0, 3>>, <<-3, 1>> >> }
InputFiles == UNION { [1..n -> RecordedPool] : n \in 0..MaxCorpus }
AngleLists == { << >>, << 90 >>, << 90, 180, 270 >>, << 180, 90 >>, << 360 >> }

InitAugment == Init /\ corpus = << >>

NextAugment ==
    \/ \E f \in InputFiles : ProvideInput(f)
    \/ \E angles \in AngleLists : AugmentMousePaths(angles)

SpecAugment == InitAugment /\ [][NextAugment]_vars

(* --------------- data_collection: the mouse path recorder -------------- *)

\* the longest trajectory, the most trajectories of one recorder, the
\* longest file and the number of recorders the model follows
MaxSamples == 2
MaxRecorded == 2
MaxFile == 4
MaxSessions == 2

\* where the physical pointer is when _sample_mouse_position reads it
PointerPositions == { <<5, 5>>, <<6, 5>> }

\* save_paths(): the file's trajectories followed by self.paths when the
\* file exists, else self.paths
SavePaths(file, self_paths) ==
    IF file.exists THEN FileOf(file.paths \o self_paths) ELSE FileOf(self_paths)

\* PygameMousePathRecorder.__init__, in a process started after the
\* previous one has ended: the file's trajectories are loaded into
\* self.paths
NewRecorder ==
    /\ recorder_pc \in { "new", "done" }
    /\ sampling_thread # "alive"
    /\ on_click = "idle"
    /\ sessions < MaxSessions
    /\ sessions' = sessions + 1
    /\ recording' = FALSE
    /\ recorder_start_pos' = None
    /\ recorder_path' = << >>
    /\ recorder_paths' = IF save_file.exists THEN save_file.paths ELSE << >>
    /\ running' = TRUE
    /\ listener' = FALSE
    /\ sampling_thread' = "none"
    /\ recorder_pc' = "made"
    /\ UNCHANGED << save_file, on_click, augmenter, human_path, motion, pixel >>

\* run(): listener.start(), then the event loop
Run ==
    /\ recorder_pc = "made"
    /\ listener' = TRUE
    /\ recorder_pc' = "loop"
    /\ UNCHANGED << save_file, running, recording, recorder_start_pos,
                    recorder_path, recorder_paths, on_click, sampling_thread,
                    sessions, augmenter, human_path, motion, pixel >>

\* the event loop gets a KEYDOWN of 's': _handle_keypress saves
PressS ==
    /\ recorder_pc = "loop"
    /\ Len(save_file.paths) + Len(recorder_paths) <= MaxFile
    /\ save_file' = SavePaths(save_file, recorder_paths)
    /\ UNCHANGED << recorder_pc, running, recording, recorder_start_pos,
                    recorder_path, recorder_paths, listener, on_click,
                    sampling_thread, sessions, augmenter, human_path, motion,
                    pixel >>

\* the event loop gets QUIT: self.running = False, and the loop ends
CloseWindow ==
    /\ recorder_pc = "loop"
    /\ running' = FALSE
    /\ recorder_pc' = "closing"
    /\ UNCHANGED << save_file, recording, recorder_start_pos, recorder_path,
                    recorder_paths, listener, on_click, sampling_thread,
                    sessions, augmenter, human_path, motion, pixel >>

\* listener.stop(): no click is delivered any more
StopListener ==
    /\ recorder_pc = "closing"
    /\ listener' = FALSE
    /\ recorder_pc' = "saving"
    /\ UNCHANGED << save_file, running, recording, recorder_start_pos,
                    recorder_path, recorder_paths, on_click, sampling_thread,
                    sessions, augmenter, human_path, motion, pixel >>

\* self.save_paths() and pygame.quit() at the end of run()
SaveAtExit ==
    /\ recorder_pc = "saving"
    /\ save_file' = SavePaths(save_file, recorder_paths)
    /\ recorder_pc' = "done"
    /\ UNCHANGED << running, recording, recorder_start_pos, recorder_path,
                    recorder_paths, listener, on_click, sampling_thread,
                    sessions, augmenter, human_path, motion, pixel >>

\* _on_click(pressed=True) while not recording: a recording starts
StartClick ==
    /\ listener
    /\ on_click = "idle"
    /\ ~recording
    /\ Len(recorder_paths) < MaxRecorded
    /\ recording' = TRUE
    /\ recorder_path' = << >>
    /\ recorder_start_pos' = None
    /\ sampling_thread' = "alive"
    /\ UNCHANGED << save_file, recorder_pc, running, recorder_paths, listener,
                    on_click, sessions, augmenter, human_path, motion, pixel >>

\* _on_click(pressed=True) while recording: self.recording = False, then
\* the listener thread waits in sampling_thread.join()
StopClick ==
    /\ listener
    /\ on_click = "idle"
    /\ recording
    /\ recording' = FALSE
    /\ on_click' = "join"
    /\ UNCHANGED << save_file, recorder_pc, running, recorder_start_pos,
                    recorder_path, recorder_paths, listener, sampling_thread,
                    sessions, augmenter, human_path, motion, pixel >>

\* join() returns once the sampling thread has ended, and _on_click does
\* self.paths.append(self.path.copy())
JoinReturns ==
    /\ on_click = "join"
    /\ sampling_thread = "finished"
    /\ recorder_paths' = Append(recorder_paths, recorder_path)
    /\ on_click' = "idle"
    /\ UNCHANGED << save_file, recorder_pc, running, recording,
                    recorder_start_pos, recorder_path, listener,
                    sampling_thread, sessions, augmenter, human_path, motion,
                    pixel >>

\* one test of "while self.recording" in _sample_mouse_position: the
\* thread ends, or takes one sample relative to the first position read
\* (a trajectory keeps its first MaxSamples samples: the thread goes on
\* looping while self.recording holds, and what it appends later is not
\* followed)
SamplerStep ==
    /\ sampling_thread = "alive"
    /\ \/ /\ ~recording
          /\ sampling_thread' = "finished"
          /\ UNCHANGED << recorder_start_pos, recorder_path >>
       \/ /\ recording
          /\ Len(recorder_path) < MaxSamples
          /\ \E pos \in PointerPositions :
               LET first == IF recorder_start_pos = None THEN pos
                            ELSE recorder_start_pos
               IN  /\ recorder_start_pos' = first
                   /\ recorder_path' =
                        Append(recorder_path,
                               << pos[1] - first[1], pos[2] - first[2] >>)
          /\ UNCHANGED sampling_thread
    /\ UNCHANGED << save_file, recorder_pc, running, recording, recorder_paths,
                    listener, on_click, sessions, augmenter, human_path,
                    motion, pixel >>

NextRecorder ==
    \/ NewRecorder
    \/ Run
    \/ PressS
    \/ CloseWindow
    \/ StopListener
    \/ SaveAtExit
    \/ StartClick
    \/ StopClick
    \/ JoinReturns
    \/ SamplerStep

\* no corpus is loaded by the recorder
InitRecorder == Init /\ corpus = << >>

SpecRecorder == InitRecorder /\ [][NextRecorder]_vars

\* the threads of the recorder are scheduled: the main thread goes on after
\* the constructor and after the window was closed, the sampling thread
\* tests its loop condition again, a join whose thread has ended returns;
\* clicks, key presses and closing the window are the user's
SpecRecorderLive ==
    /\ SpecRecorder
    /\ WF_vars(Run)
    /\ WF_vars(StopListener)
    /\ WF_vars(SaveAtExit)
    /\ WF_vars(SamplerStep)
    /\ WF_vars(JoinReturns)

(* --------------- pixel selection and color matching: calls ------------- *)

\* the colors of the frames, <<b, g, r>>: the target color 0A0AC8, a color
\* at distance 2 of it, a color 2 off in every channel (distance sqrt(12)),
\* the green of the exclusion mask, and the background
TargetBgr == << 200, 10, 10 >>
NearBgr == << 200, 12, 10 >>
BoxBgr == << 202, 12, 12 >>
GreenBgr == << 0, 255, 0 >>
GreyBgr == << 100, 100, 100 >>

TargetHex == << "0", "A", "0", "A", "C", "8" >>

\* the 16 x 16 block of pixels that is cell (i, j) after a downsampling by 16
Tile(i, j, bgr) == Rect(16 * i, 16 * j, 16 * i + 16, 16 * j + 16, bgr)

\* frames of 80 x 64 pixels (85 x 70 for one), 5 x 4 cells after a
\* downsampling by 16: a diagonal chain of three cells and a single cell; two
\* blobs (a corner and the last column) with green near both; the same
\* blobs and a single cell with green near one blob; a single
\* cell before a square blob, with a near color and a box color beside it; a
\* rectangle that covers some blocks partly; a frame whose sides are no
\* multiples of the factor; a frame of the target color
TileShots ==
    { Frame(80, 64, GreyBgr,
            << Tile(0, 0, TargetBgr), Tile(1, 1, TargetBgr), Tile(2, 2, TargetBgr),
               Tile(4, 0, TargetBgr) >>),
      Frame(80, 64, GreyBgr,
            << Rect(0, 0, 32, 16, TargetBgr), Tile(0, 1, TargetBgr),
               Rect(64, 16, 80, 64, TargetBgr), Tile(3, 0, GreenBgr) >>),
      Frame(80, 64, GreyBgr,
            << Rect(0, 0, 32, 16, TargetBgr), Tile(0, 1, TargetBgr),
               Rect(64, 16, 80, 64, TargetBgr), Tile(2, 3, TargetBgr),
               Tile(0, 3, GreenBgr) >>),
      Frame(80, 64, GreyBgr,
            << Tile(0, 0, TargetBgr), Rect(32, 16, 64, 48, TargetBgr),
               Tile(4, 1, NearBgr), Tile(1, 3, BoxBgr) >>),
      Frame(80, 64, GreyBgr, << Rect(8, 0, 56, 32, TargetBgr) >>),
      Frame(85, 70, GreyBgr, << Rect(0, 0, 40, 40, TargetBgr) >>),
      Frame(80, 64, TargetBgr, << >>) }

\* frames of a few pixels: the target, the near and the box color on grey;
\* only grey
TinyShots ==
    { Frame(3, 2, GreyBgr,
            << Rect(0, 0, 1, 1, TargetBgr), Rect(1, 1, 2, 2, NearBgr),
               Rect(2, 0, 3, 1, BoxBgr) >>),
      Frame(2, 2, GreyBgr, << >>) }

\* a frame of 50 x 42 pixels: a blob of 5 pixels in the first row, a blob
\* of 2000 pixels from the third row on
WideShot ==
    Frame(50, 42, GreyBgr,
          << Rect(0, 0, 5, 1, TargetBgr), Rect(0, 2, 50, 42, TargetBgr) >>)

\* downsampling factors whose thresholds are 3, 1 and 0 pixels
Factors == {16, 23, 32}

\* center_falloff: none, the default, and one that makes far weights 0.0
Falloffs == {0, 4, 2000}

\* a center_falloff under which only the center pixel of WideShot has a
\* weight above 0.0
SteepFalloffs == {40000}

ColorTolerances == {0, MaxColorTol}

\* the calls of smart_pixel_select: the tile frames downsampled, the tiny
\* frames and the wide frame as they are
SmartCalls ==
    { [screenshot |-> s, downsample_factor |-> f, center_falloff |-> cf]
      : s \in TileShots, f \in Factors, cf \in Falloffs }
    \cup { [screenshot |-> s, downsample_factor |-> 1, center_falloff |-> cf]
           : s \in TinyShots, cf \in Falloffs }
    \cup { [screenshot |-> WideShot, downsample_factor |-> 1, center_falloff |-> cf]
           : cf \in SteepFalloffs }

\* hex colors colors_match is asked about: colors one step apart in one,
\* two and three channels, the target color with a '#', strings of three
\* and of five digits, and a string with letters that are no digits
HexColors ==
    { << "0", "0", "0", "0", "0", "0" >>,
      << "0", "1", "0", "0", "0", "0" >>,
      << "0", "1", "0", "1", "0", "1" >>,
      << "0", "0", "0", "0", "0", "2" >>,
      << "#", "0", "A", "0", "A", "C", "8" >>,
      << "F", "F", "F" >>,
      << "F", "F", "F", "F", "F" >>,
      << "G", "G", "0", "0", "0", "0" >> }

\* RGB colors is_color_in_range is asked about
RgbColors ==
    { << 0, 0, 0 >>, << 1, 0, 0 >>, << 1, 1, 1 >>, << 0, 2, 0 >>, << 255, 255, 254 >> }

\* the function has returned (or raised e)
Returned(f, e) ==
    /\ stage' = "returned"
    /\ fn' = f
    /\ exc' = e

\* the arguments of a pixel selection
SelectCall(shot, hex, tol, f, cf) ==
    /\ screenshot' = shot
    /\ target_hex' = hex
    /\ color_tolerance' = tol
    /\ downsample_factor' = f
    /\ center_falloff' = cf

\* the locals and the result of a pixel selection
SelectLocals(o) ==
    /\ rgb_screen' = o.rgb_screen
    /\ target_mask' = o.target_mask
    /\ green_mask' = o.green_mask
    /\ labeled_blobs' = o.labeled_blobs
    /\ new_labeled_blobs' = o.new_labeled_blobs
    /\ filtered_target_mask' = o.filtered_target_mask
    /\ pixel_coords' = o.pixel_coords
    /\ probabilities' = o.probabilities
    /\ selected_pixel' = o.selected_pixel
    /\ random_pixel' = o.random_pixel

\* the arguments and the result of a color comparison
MatchCall(h1, h2, c, tc, m) ==
    /\ hex1' = h1
    /\ hex2' = h2
    /\ color' = c
    /\ target_color' = tc
    /\ matches' = m

NoMatchCall == MatchCall(<< >>, << >>, <<0, 0, 0>>, <<0, 0, 0>>, FALSE)

\* smart_pixel_select(screenshot, target_hex, tolerance,
\* downsample_factor=f, center_falloff=cf)
SmartPixelSelect(shot, hex, tol, f, cf) ==
    /\ stage = "idle"
    /\ \E o \in SmartPixelSelectOutcomes(shot, hex, tol, f, cf) :
         /\ SelectLocals(o)
         /\ Returned("smart_pixel_select", o.err)
    /\ SelectCall(shot, hex, tol, f, cf)
    /\ NoMatchCall
    /\ UNCHANGED << human_path, motion, augmenter, recorder >>

\* random_pixel_select(screenshot, target_hex, tolerance)
RandomPixelSelect(shot, hex, tol) ==
    /\ stage = "idle"
    /\ LET found == FindPixelsByColor(shot, hex, tol)
       IN  \E p \in IF found = << >> THEN {None}
                    ELSE { found[i] : i \in 1..Len(found) } :
             SelectLocals([NoMasks("none") EXCEPT !.pixel_coords = found,
                                                  !.random_pixel = p])
    /\ Returned("random_pixel_select", "none")
    /\ SelectCall(shot, hex, tol, 1, 0)
    /\ NoMatchCall
    /\ UNCHANGED << human_path, motion, augmenter, recorder >>

\* colors_match(h1, h2, tol)
ColorsMatch(h1, h2, tol) ==
    /\ stage = "idle"
    /\ MatchCall(h1, h2, <<0, 0, 0>>, <<0, 0, 0>>, ColorsMatchResult(h1, h2, tol))
    /\ Returned("colors_match", "none")
    /\ SelectCall(NoFrame, << >>, tol, 1, 0)
    /\ SelectLocals(NoMasks("none"))
    /\ UNCHANGED << human_path, motion, augmenter, recorder >>

\* is_color_in_range(c, tc, tol)
IsColorInRange(c, tc, tol) ==
    /\ stage = "idle"
    /\ MatchCall(<< >>, << >>, c, tc, IsColorInRangeResult(c, tc, tol))
    /\ Returned("is_color_in_range", "none")
    /\ SelectCall(NoFrame, << >>, tol, 1, 0)
    /\ SelectLocals(NoMasks("none"))
    /\ UNCHANGED << human_path, motion, augmenter, recorder >>

\* hex_to_rgb(h), called directly: the tuple it returns is kept in color
HexToRgbCall(h) ==
    /\ stage = "idle"
    /\ MatchCall(h, << >>, HexToRgb(h).rgb, <<0, 0, 0>>, FALSE)
    /\ Returned("hex_to_rgb", HexToRgb(h).err)
    /\ SelectCall(NoFrame, << >>, 0, 1, 0)
    /\ SelectLocals(NoMasks("none"))
    /\ UNCHANGED << human_path, motion, augmenter, recorder >>

\* the caller takes the result; nothing of the call is kept
ReturnToCaller ==
    /\ stage = "returned"
    /\ stage' = "idle"
    /\ fn' = "none"
    /\ exc' = "none"
    /\ SelectCall(NoFrame, << >>, 0, 1, 0)
    /\ SelectLocals(NoMasks("none"))
    /\ NoMatchCall
    /\ UNCHANGED << human_path, motion, augmenter, recorder >>

\* no HumanPath is constructed: only the module-level functions of
\* pixel_selection.py and color_utils.py are called
InitVision == Init /\ corpus = << >>

NextVision ==
    \/ \E sc \in SmartCalls, tol \in ColorTolerances :
         SmartPixelSelect(sc.screenshot, TargetHex, tol, sc.downsample_factor,
                          sc.center_falloff)
    \/ \E shot \in TinyShots, hex \in {TargetHex, << "F", "F", "F" >>},
          tol \in ColorTolerances : RandomPixelSelect(shot, hex, tol)
    \/ \E h1 \in HexColors, h2 \in HexColors, tol \in ColorTolerances :
         ColorsMatch(h1, h2, tol)
    \/ \E c \in RgbColors, tc \in RgbColors, tol \in ColorTolerances :
         IsColorInRange(c, tc, tol)
    \/ \E h \in HexColors : HexToRgbCall(h)
    \/ ReturnToCaller

SpecVision == InitVision /\ [][NextVision]_vars

(* ------------------------------ claims --------------------------------- *)

\* a composition by _build_iterative_path has returned its path
IterativeReturned ==
    pc = "returned" /\ op = "_build_iterative_path" /\ err = "none"

\* a composition by _build_single_path has returned its path
SingleReturned ==
    pc = "returned" /\ op = "_build_single_path" /\ err = "none"

\* the point is within the tolerance of the target
WithinTolerance(p) ==
    (p[1] - target_pos[1]) * (p[1] - target_pos[1])
      + (p[2] - target_pos[2]) * (p[2] - target_pos[2]) <= tolerance * tolerance

\* C1: an iteration of the iterative composition that begins within the
\* tolerance of the target appends the target as the last point of the path
\* and leaves the loop without another index query or segment; a composition
\* from a position to itself, with max_iterations >= 1, returns just the
\* target, in its first iteration and without any index query.
C1_ReachedAppendsTarget ==
    /\ [][ (pc = "loop" /\ WithinTolerance(current_pos)) =>
             /\ pc' = "after"
             /\ complete_path' = Append(complete_path, target_pos)
             /\ queries' = queries
             /\ segments' = segments ]_vars
    /\ [][ (pc = "after" /\ complete_path # << >>) =>
             (pc' = "returned" /\ ret' = complete_path) ]_vars
    /\ [] ( (IterativeReturned /\ start_pos = target_pos /\ max_iterations >= 1) =>
              (ret = << target_pos >> /\ queries = << >> /\ iteration = 1) )

\* C1 witness: the target was appended by an iteration that began within
\* the tolerance, after a segment had been retrieved
C1_Witness ==
    /\ IterativeReturned
    /\ Len(segments) = 1
    /\ iteration = 2
    /\ start_pos # target_pos
    /\ Last(ret) = target_pos
    /\ Len(ret) = Len(segments[1]) + 1

\* C2: the iterative composition begins at most max_iterations iterations,
\* each begun iteration counts toward the bound, and so it retrieves at most
\* max_iterations segments; with max_iterations = 1 and a first segment that
\* ends outside the tolerance, the result is that one segment.
C2_IterationBound ==
    /\ [] ( op = "_build_iterative_path" =>
              /\ iteration <= max_iterations
              /\ Len(queries) <= iteration
              /\ Len(segments) <= Len(queries)
              /\ (pc = "loop" => iteration < max_iterations) )
    /\ [][ pc = "loop" => (pc' # "loop" \/ iteration' = iteration + 1) ]_vars
    /\ [] ( ( /\ IterativeReturned
              /\ max_iterations = 1
              /\ Len(segments) = 1
              /\ ~WithinTolerance(Last(segments[1])) ) =>
              (ret = segments[1] /\ Len(queries) = 1) )

\* C2 witness: max_iterations = 1, one segment that ends outside the
\* tolerance, returned as the whole path
C2_Witness ==
    /\ IterativeReturned
    /\ max_iterations = 1
    /\ Len(segments) = 1
    /\ ~WithinTolerance(Last(segments[1]))
    /\ ret = segments[1]

\* the moving average of window 3 of coordinate c at (1-based) position i of
\* a trajectory of at least 3 points, as the exact fraction <<sum, count>>
Average3(path, i, c) ==
    IF i = 1 THEN << path[1][c] + path[2][c], 2 >>
    ELSE IF i = Len(path) THEN << path[i - 1][c] + path[i][c], 2 >>
    ELSE << path[i - 1][c] + path[i][c] + path[i + 1][c], 3 >>

\* coordinate c of point i of the trajectory as get_path_for_displacement
\* hands it out under the configuration
Handed(path, i, c) ==
    IF smoothing /\ Len(path) >= 3 THEN Average3(path, i, c) ELSE << path[i][c], 1 >>

\* int(a + num / den) for an integer a: the fraction truncated toward zero
Truncated(a, f) ==
    LET num == a * f[2] + f[1]
    IN IF num >= 0 THEN num \div f[2] ELSE -((-num) \div f[2])

\* the trajectory the last single composition retrieved
Retrieved == paths[sel.index + 1]

RECURSIVE Chain(_)
Chain(segs) ==
    IF segs = << >> THEN << >>
    ELSE IF Len(segs) = 1 THEN segs[1]
    ELSE Chain(SubSeq(segs, 1, Len(segs) - 1))
           \o SubSeq(segs[Len(segs)], 2, Len(segs[Len(segs)]))

\* the position the i-th segment of the composition was built from
BuiltFrom(i) == IF i = 1 THEN start_pos ELSE Last(segments[i - 1])

\* C4: the iteratively composed path is the first retrieved segment in
\* full, followed by every later segment without its first point, in
\* retrieval order, followed by the target when an iteration began within
\* the tolerance; the current position is the last point of the segment
\* appended last, and the i-th index query is target - (that position).
C4_ChainOfSegments ==
    (op = "_build_iterative_path" /\ err = "none" /\ pc \in {"loop", "after", "returned"}) =>
      /\ complete_path = IF iteration > Len(segments)
                         THEN Append(Chain(segments), target_pos)
                         ELSE Chain(segments)
      /\ current_pos = IF segments = << >> THEN start_pos ELSE Last(Last(segments))
      /\ Len(queries) = Len(segments)
      /\ \A i \in 1..Len(queries) :
           queries[i] = << target_pos[1] - BuiltFrom(i)[1],
                           target_pos[2] - BuiltFrom(i)[2] >>
      /\ (pc = "returned" => ret = complete_path)

\* C4 witness: a path of two segments that ended at the iteration bound,
\* the second without its first point
C4_Witness ==
    /\ IterativeReturned
    /\ Len(segments) = 2
    /\ iteration = 2
    /\ Len(ret) = Len(segments[1]) + Len(segments[2]) - 1
    /\ Len(segments[2]) = 3

\* C5 as claimed: the last point of the non-iteratively composed path is
\* start plus the stored displacement of the selected trajectory, so that
\* its distance to the target is the distance the index query reported.
C5_MissIsIndexDistance ==
    SingleReturned =>
      /\ Last(ret) = << start_pos[1] + displacements[sel.index + 1][1],
                        start_pos[2] + displacements[sel.index + 1][2] >>
      /\ (Last(ret)[1] - target_pos[1]) * (Last(ret)[1] - target_pos[1])
           + (Last(ret)[2] - target_pos[2]) * (Last(ret)[2] - target_pos[2])
         = sel.dist

\* squared distance of the stored displacement of bank index i to d
StoredDist(i, d) ==
    (displacements[i + 1][1] - d[1]) * (displacements[i + 1][1] - d[1])
      + (displacements[i + 1][2] - d[2]) * (displacements[i + 1][2] - d[2])

BankIndices == 0..(Len(paths) - 1)

\* C6 as claimed: find_k_nearest_paths(d, k) returns min(k, bank size)
\* entries, for every k >= 1, each a distinct valid bank index with its
\* distance, by non-decreasing distance, and no bank entry left out is
\* nearer than one returned; find_closest_path returns a nearest entry.
C6_KNearest ==
    /\ (pc = "returned" /\ op = "find_k_nearest_paths") =>
         /\ err = "none"
         /\ Len(knn) = IF k_query <= Len(paths) THEN k_query ELSE Len(paths)
         /\ \A i \in 1..Len(knn) :
              /\ knn[i].finite
              /\ knn[i].index \in BankIndices
              /\ knn[i].dist = StoredDist(knn[i].index, queries[1])
         /\ \A i, j \in 1..Len(knn) :
              i < j => (knn[i].index # knn[j].index /\ knn[i].dist <= knn[j].dist)
         /\ \A j \in BankIndices :
              (\A i \in 1..Len(knn) : knn[i].index # j) =>
                 \A i \in 1..Len(knn) : knn[i].dist <= StoredDist(j, queries[1])
    /\ (pc = "returned" /\ op = "find_closest_path") =>
         /\ err = "none"
         /\ sel.finite
         /\ sel.index \in BankIndices
         /\ \A j \in BankIndices : StoredDist(sel.index, queries[1]) <= StoredDist(j, queries[1])

\* C7 as claimed: select_random_path_from_k_nearest(d, k) returns a valid
\* bank index with its finite distance, for every k >= 1 and every non-empty
\* bank, and so a composition never indexes outside the bank.
C7_SelectionInBank ==
    /\ (pc = "returned" /\ op = "select_random_path_from_k_nearest") =>
         /\ err = "none"
         /\ sel.finite
         /\ sel.index \in BankIndices
    /\ (pc = "returned" /\ op \in {"_build_single_path", "_build_iterative_path"}) =>
         err # "IndexError"

\* the test of _load_paths, on the number of points
AtLeastTwoPoints(path) == Len(path) >= 2

\* C8: the bank holds as many displacements as trajectories, and the i-th
\* displacement is the last point of the i-th trajectory minus its first
\* point; the trajectory (0,0), (10,5), (20,20) has displacement (20,20).
C8_DisplacementsMatchPaths ==
    /\ Len(paths) = Len(displacements)
    /\ \A i \in 1..Len(paths) :
         /\ displacements[i] = << paths[i][Len(paths[i])][1] - paths[i][1][1],
                                  paths[i][Len(paths[i])][2] - paths[i][1][2] >>
         /\ (paths[i] = << <<0, 0>>, <<10, 5>>, <<20, 20>> >> =>
               displacements[i] = <<20, 20>>)

\* C8 witness: a constructed bank with the trajectory of the example and a
\* trajectory that does not start at the origin
C8_Witness ==
    /\ pc = "idle"
    /\ paths = << << <<0, 0>>, <<10, 5>>, <<20, 20>> >>,
                  << <<1, 1>>, <<0, 3>>, <<-3, 1>> >> >>
    /\ displacements = << <<20, 20>>, <<-4, 0>> >>

\* C9: once loaded, the bank is the corpus without its trajectories of
\* fewer than 2 points, in corpus order; every stored trajectory and every
\* retrieved segment has at least 2 points.
C9_BankIsValidCorpus ==
    /\ pc # "new" => paths = SelectSeq(corpus, AtLeastTwoPoints)
    /\ \A i \in 1..Len(paths) : Len(paths[i]) >= 2
    /\ \A i \in 1..Len(segments) : Len(segments[i]) >= 2
    /\ (pc = "returned" /\ err = "none"
          /\ op \in {"_build_single_path", "_build_iterative_path"}
          /\ segments # << >>) => Len(ret) >= 2

\* C9 witness: a corpus with a too short trajectory before a valid one
\* was loaded; the bank holds the valid one only
C9_Witness ==
    /\ pc = "idle"
    /\ Len(corpus) = 2
    /\ Len(corpus[1]) = 1
    /\ Len(paths) = 1
    /\ paths[1] = corpus[2]

\* C10: the construction over a corpus without a trajectory of at least 2
\* points fails with an error; a HumanPath that takes operations has a
\* non-empty bank and a built index.
C10_EmptyCorpusFails ==
    /\ (pc # "new" /\ SelectSeq(corpus, AtLeastTwoPoints) = << >>) =>
         (pc = "failed" /\ err = "ValueError" /\ ~kd_tree)
    /\ pc \in {"idle", "loop", "after", "returned"} =>
         (paths # << >> /\ displacements # << >> /\ kd_tree)

\* C10 witness: the construction over a non-empty corpus of too short
\* trajectories has failed
C10_Witness ==
    /\ pc = "failed"
    /\ err = "ValueError"
    /\ Len(corpus) >= 1
    /\ paths = << >>

(* -------------------- claims on the pixel selection -------------------- *)

\* smart_pixel_select has returned (without raising)
SmartReturned == stage = "returned" /\ fn = "smart_pixel_select" /\ exc = "none"

\* a and b are at most n cells apart in both directions
Near(a, b, n) ==
    /\ a[1] - b[1] <= n /\ b[1] - a[1] <= n
    /\ a[2] - b[2] <= n /\ b[2] - a[2] <= n

\* the cells that carry the same label as p after the reindexing
BlobOf(p) == { c \in DOMAIN new_labeled_blobs : new_labeled_blobs[c] = new_labeled_blobs[p] }

\* a green cell outside the blob lies within 2 cells of a cell of the blob
GreenInRing(blob) ==
    \E g \in green_mask \ blob : \E b \in blob : Near(g, b, 2)

\* C11: whenever smart_pixel_select returns a pixel, the pixel chosen (in
\* downsampled coordinates) is a true cell of the match mask, it is no
\* background pixel, its blob has at least the minimum size, and no green
\* pixel lies in the border ring of its blob
C11_SelectedInValidBlob ==
    (SmartReturned /\ random_pixel # None) =>
        /\ selected_pixel \in target_mask
        /\ labeled_blobs[selected_pixel] >= 1
        /\ new_labeled_blobs[selected_pixel] >= 1
        /\ Cardinality(BlobOf(selected_pixel))
             >= 1000 \div (downsample_factor * downsample_factor)
        /\ ~GreenInRing(BlobOf(selected_pixel))

\* a pixel is returned from a frame that also has a blob below the minimum
\* size and a blob with green in its ring
C11_Witness ==
    /\ SmartReturned
    /\ random_pixel # None
    /\ \E c \in target_mask : new_labeled_blobs[c] = 0
    /\ \E c \in target_mask : new_labeled_blobs[c] >= 1 /\ GreenInRing(BlobOf(c))

\* the labels of the blobs that passed the minimum-size filter
SurvivingLabels == { new_labeled_blobs[c] : c \in DOMAIN new_labeled_blobs } \ {0}

\* the cells that carry label l after the reindexing
BlobLabelled(l) == { c \in DOMAIN new_labeled_blobs : new_labeled_blobs[c] = l }

\* the candidate pixels, as a set
Candidates == { pixel_coords[i] : i \in 1..Len(pixel_coords) }

\* C12: a size-surviving blob contributes all its pixels to the candidate
\* set if no green pixel lies in its border ring (5x5 dilation minus the
\* blob) and none of them otherwise; when every blob has green in its ring,
\* None is returned
C12_ExclusionByRing ==
    SmartReturned =>
        /\ \A l \in SurvivingLabels :
              IF GreenInRing(BlobLabelled(l))
              THEN BlobLabelled(l) \cap Candidates = {}
              ELSE BlobLabelled(l) \subseteq Candidates
        /\ (\A l \in SurvivingLabels : GreenInRing(BlobLabelled(l)))
              => random_pixel = None

\* every blob of a non-empty match mask survives the size filter and has
\* green in its ring (one of them exactly 2 cells away); None is returned
C12_Witness ==
    /\ SmartReturned
    /\ target_mask # {}
    /\ SurvivingLabels # {}
    /\ \A c \in target_mask : new_labeled_blobs[c] >= 1
    /\ \A l \in SurvivingLabels : GreenInRing(BlobLabelled(l))
    /\ \E l \in SurvivingLabels :
          ~\E g \in green_mask, b \in BlobLabelled(l) : Near(g, b, 1)
    /\ random_pixel = None

RECURSIVE Chained(_, _, _)
Chained(mask, S, frontier) ==
    LET touching == { << c[1] + dx, c[2] + dy >> : c \in frontier, dx \in {-1, 0, 1},
                                                   dy \in {-1, 0, 1} }
        new == (touching \cap mask) \ S
    IN  IF new = {} THEN S ELSE Chained(mask, S \cup new, new)

\* the cells that carry label l before the reindexing
OldBlob(l) == { c \in target_mask : labeled_blobs[c] = l }

\* the labels label() gave to the cells of the match mask
OldLabels == { labeled_blobs[c] : c \in target_mask }

\* C14: blob segmentation uses 8-connectivity: the cells of the match mask
\* that share a label are exactly the cells joined by a chain of
\* horizontally, vertically or diagonally adjacent cells of the mask (every
\* labelled set is the chain closure of one of its cells, no cell of the
\* mask is background); a mask of two diagonally touching single pixels
\* yields exactly 1 blob
C14_EightConnectivity ==
    SmartReturned =>
        /\ 0 \notin OldLabels
        /\ \A l \in OldLabels :
              LET a == CHOOSE c \in OldBlob(l) : TRUE
              IN  Chained(target_mask, {a}, {a}) = OldBlob(l)
        /\ (\E a \in target_mask :
               target_mask = {a, << a[1] + 1, a[2] + 1 >>}
               \/ target_mask = {a, << a[1] - 1, a[2] + 1 >>})
              => Cardinality(OldLabels) = 1

\* the match mask is two pixels that touch by a corner only; they are one blob
C14_Witness ==
    /\ SmartReturned
    /\ target_mask = { <<0, 0>>, <<1, 1>> }
    /\ labeled_blobs[<<0, 0>>] = 1
    /\ labeled_blobs[<<1, 1>>] = 1

\* the blob of old label l was relabelled to background
Discarded(l) == \A c \in OldBlob(l) : new_labeled_blobs[c] = 0

\* C15 as claimed: a blob of n pixels is discarded if and only if n is below
\* the exact quotient 1000 / f^2, that is, n * f^2 < 1000
C15_ExactQuotient ==
    SmartReturned =>
        \A l \in OldLabels :
           Discarded(l) <=>
             Cardinality(OldBlob(l)) * downsample_factor * downsample_factor < 1000

\* C15 as amended: a blob of n pixels is discarded if and only if n is below
\* the integer quotient of 1000 by f^2 (1000 / f^2 rounded down), and
\* survives (keeps a label of 1 or more) otherwise
C15_FlooredQuotient ==
    SmartReturned =>
        \A l \in OldLabels :
           /\ Discarded(l) <=>
                Cardinality(OldBlob(l))
                  < 1000 \div (downsample_factor * downsample_factor)
           /\ Discarded(l) \/ \A c \in OldBlob(l) : new_labeled_blobs[c] >= 1

\* with f = 16 (1000 / 256 = 3.9) a blob of 3 pixels survives, and a blob
\* of 1 pixel is discarded
C15_Witness ==
    /\ SmartReturned
    /\ downsample_factor = 16
    /\ \E l \in OldLabels : Cardinality(OldBlob(l)) = 3 /\ ~Discarded(l)
    /\ \E l \in OldLabels : Cardinality(OldBlob(l)) = 1 /\ Discarded(l)

\* the old labels of the blobs that have at least the minimum size
Survivors ==
    { l \in OldLabels :
        Cardinality(OldBlob(l)) >= 1000 \div (downsample_factor * downsample_factor) }

\* C16: after the minimum-size filter the label map uses exactly the labels
\* 0..N for the N surviving blobs: every label of 1..N is carried by a
\* pixel, no label is above N, the pixels of discarded blobs and of the
\* background are 0, every surviving blob has one label of its own; a
\* 2000-pixel blob beside a 5-pixel blob (threshold 1000) is labelled 1
C16_DenseLabels ==
    SmartReturned =>
        /\ { new_labeled_blobs[c] : c \in DOMAIN new_labeled_blobs } \ {0}
             = 1..Cardinality(Survivors)
        /\ { c \in DOMAIN new_labeled_blobs : new_labeled_blobs[c] # 0 }
             \subseteq UNION { OldBlob(l) : l \in Survivors }
        /\ \A l \in Survivors :
              /\ Cardinality({ new_labeled_blobs[c] : c \in OldBlob(l) }) = 1
              /\ \A c \in OldBlob(l) : new_labeled_blobs[c] >= 1
        /\ \A l1, l2 \in Survivors :
              l1 # l2 => \A c1 \in OldBlob(l1), c2 \in OldBlob(l2) :
                           new_labeled_blobs[c1] # new_labeled_blobs[c2]
        /\ (downsample_factor = 1
              /\ { Cardinality(OldBlob(l)) : l \in OldLabels } = {5, 2000})
             => \A l \in OldLabels :
                  Cardinality(OldBlob(l)) = 2000
                    => \A c \in OldBlob(l) : new_labeled_blobs[c] = 1

\* a 5-pixel blob (found first) and a 2000-pixel blob, threshold 1000: the
\* large blob is the only survivor and is labelled 1
C16_Witness ==
    /\ SmartReturned
    /\ downsample_factor = 1
    /\ Cardinality(OldBlob(1)) = 5
    /\ Cardinality(OldBlob(2)) = 2000
    /\ Discarded(1)
    /\ \A c \in OldBlob(2) : new_labeled_blobs[c] = 1

\* C17: with f > 1 the coordinate returned for the chosen pixel (x, y) is
\* (x*f + f/2, y*f + f/2) with the integer half of f, a pixel of the f-by-f
\* block of (x, y), inside the original frame; with f = 1 the chosen pixel
\* is returned unchanged
C17_UpsampledToBlockCentre ==
    (SmartReturned /\ random_pixel # None) =>
        LET f == downsample_factor
            x == selected_pixel[1]
            y == selected_pixel[2]
        IN  /\ f > 1 =>
                  /\ random_pixel = << x * f + f \div 2, y * f + f \div 2 >>
                  /\ x * f <= random_pixel[1] /\ random_pixel[1] < (x + 1) * f
                  /\ y * f <= random_pixel[2] /\ random_pixel[2] < (y + 1) * f
            /\ f = 1 => random_pixel = selected_pixel
            /\ 0 <= random_pixel[1] /\ random_pixel[1] < screenshot.width
            /\ 0 <= random_pixel[2] /\ random_pixel[2] < screenshot.height

\* the last cell of a frame whose sides are no multiples of the factor 23
\* is chosen and upsampled
C17_Witness ==
    /\ SmartReturned
    /\ downsample_factor = 23
    /\ screenshot.width = 80
    /\ screenshot.height = 64
    /\ selected_pixel = <<2, 1>>
    /\ random_pixel = <<57, 34>>

\* the width and the height of the downsampled frame
GridWidth ==
    IF downsample_factor > 1 THEN screenshot.width \div downsample_factor
    ELSE screenshot.width
GridHeight ==
    IF downsample_factor > 1 THEN screenshot.height \div downsample_factor
    ELSE screenshot.height

\* the square of the distance d of cell c from the center (width // 2,
\* height // 2), its offset normalised by (width, height), in units of
\* 1 / (width * height) ^ 2
NormDist2(c) ==
    (c[1] - GridWidth \div 2) * (c[1] - GridWidth \div 2) * GridHeight * GridHeight
      + (c[2] - GridHeight \div 2) * (c[2] - GridHeight \div 2) * GridWidth * GridWidth

\* the candidates by what the claim is about: the squared distance and
\* the selection probability of each
Chances ==
    { << NormDist2(pixel_coords[i]), probabilities[i] >> : i \in 1..Len(pixel_coords) }

\* probability p is strictly higher than probability q
Higher(p, q) == ~p.zero /\ (q.zero \/ p.decay < q.decay)

\* probabilities p and q are equal and not 0
EquallyLikely(p, q) == ~p.zero /\ ~q.zero /\ p.decay = q.decay

\* exp(-falloff * d) is 0.0 for every candidate
AllWeightsZero ==
    \A i \in 1..Len(pixel_coords) :
       Underflows(NormDist2(pixel_coords[i]), GridWidth, GridHeight, center_falloff)

\* all candidates are equally likely
Uniform ==
    \A i \in 1..Len(pixel_coords) : EquallyLikely(probabilities[i], probabilities[1])

\* C18 as claimed: for falloff > 0 a candidate strictly nearer to the
\* centre has a strictly higher selection probability than a farther one;
\* for falloff = 0 all candidates are equally likely; if all weights are
\* zero the choice is uniform over the candidates
C18_NearerStrictlyMoreLikely ==
    SmartReturned =>
        /\ center_falloff > 0 =>
              \A a, b \in Chances : a[1] < b[1] => Higher(a[2], b[2])
        /\ center_falloff = 0 => Uniform
        /\ AllWeightsZero => Uniform

\* C18 as amended: for falloff > 0 a candidate strictly nearer to the
\* centre is never less likely than a farther one, and strictly more
\* likely unless the weight exp(-falloff * d) of the farther one is 0.0;
\* for falloff = 0 all candidates are equally likely; if all weights are
\* zero the choice is uniform over the candidates; the pixel chosen has a
\* probability above 0
C18_NearerNeverLessLikely ==
    SmartReturned =>
        /\ center_falloff > 0 =>
              \A a, b \in Chances :
                 a[1] < b[1] =>
                    /\ ~Higher(b[2], a[2])
                    /\ Underflows(b[1], GridWidth, GridHeight, center_falloff)
                         \/ Higher(a[2], b[2])
        /\ center_falloff = 0 => Uniform
        /\ AllWeightsZero => Uniform
        /\ random_pixel # None =>
              \E i \in 1..Len(pixel_coords) :
                 pixel_coords[i] = selected_pixel /\ ~probabilities[i].zero

\* with the default falloff, of two candidates equally far from the
\* centre in pixels the one nearer by the normalised distance is the more
\* likely, and it is chosen
C18_Witness ==
    /\ SmartReturned
    /\ center_falloff = 4
    /\ GridWidth = 5
    /\ GridHeight = 4
    /\ selected_pixel = <<0, 2>>
    /\ \E i, j \in 1..Len(pixel_coords) :
          /\ pixel_coords[i] = <<0, 2>>
          /\ pixel_coords[j] = <<2, 0>>
          /\ Higher(probabilities[i], probabilities[j])

\* with a falloff of 2000 the weights of two candidates at different
\* distances are both 0.0
C18_Underflow ==
    /\ SmartReturned
    /\ center_falloff = 2000
    /\ \E a, b \in Chances : a[1] < b[1] /\ a[2].zero /\ b[2].zero

\* with a falloff of 2000 all weights are 0.0 and the choice is uniform
\* among two candidates or more
C18_Fallback ==
    /\ SmartReturned
    /\ center_falloff = 2000
    /\ Len(pixel_coords) >= 2
    /\ AllWeightsZero
    /\ random_pixel # None

(* --------------------- claims on the color matching -------------------- *)

\* the Euclidean RGB distance of colors c and t is at most tol
EuclideanWithin(c, t, tol) ==
    (c[1] - t[1]) * (c[1] - t[1]) + (c[2] - t[2]) * (c[2] - t[2])
        + (c[3] - t[3]) * (c[3] - t[3]) <= tol * tol

\* the hex string is a well-formed color
WellFormed(hex) == HexToRgb(hex).err = "none"

\* the RGB color of pixel c of the frame (stored as <<b, g, r>>)
RgbAt(c) ==
    << Pixel(screenshot, c[1], c[2])[3], Pixel(screenshot, c[1], c[2])[2],
       Pixel(screenshot, c[1], c[2])[1] >>

\* C19: every color-matching entry point accepts a pixel exactly when its
\* Euclidean RGB distance to the target is at most the tolerance:
\* colors_match, is_color_in_range, the target mask of smart_pixel_select
\* and find_pixels_by_color (used by random_pixel_select); a color
\* matches itself at tolerance 0
C19_AllEuclidean ==
    /\ (stage = "returned" /\ fn = "colors_match" /\ WellFormed(hex1) /\ WellFormed(hex2)) =>
          /\ matches = EuclideanWithin(HexToRgb(hex1).rgb, HexToRgb(hex2).rgb,
                                       color_tolerance)
          /\ hex1 = hex2 => matches
    /\ (stage = "returned" /\ fn = "is_color_in_range") =>
          /\ matches = EuclideanWithin(color, target_color, color_tolerance)
          /\ color = target_color => matches
    /\ SmartReturned =>
          target_mask = { c \in DOMAIN rgb_screen :
                            EuclideanWithin(rgb_screen[c], HexToRgb(target_hex).rgb,
                                            color_tolerance) }
    /\ (stage = "returned" /\ fn = "random_pixel_select" /\ WellFormed(target_hex)) =>
          Candidates = { c \in Cells(screenshot.width, screenshot.height) :
                           EuclideanWithin(RgbAt(c), HexToRgb(target_hex).rgb,
                                           color_tolerance) }

\* C20: color matching is symmetric: colors_match(A, B, t) is
\* colors_match(B, A, t), and is_color_in_range(A, B, t) is
\* is_color_in_range(B, A, t)
C20_Symmetric ==
    /\ (stage = "returned" /\ fn = "colors_match") =>
          matches = ColorsMatchResult(hex2, hex1, color_tolerance)
    /\ (stage = "returned" /\ fn = "is_color_in_range") =>
          matches = IsColorInRangeResult(target_color, color, color_tolerance)

\* two different colors match, in the one order as in the other
C20_Witness ==
    /\ stage = "returned"
    /\ fn = "colors_match"
    /\ hex1 # hex2
    /\ WellFormed(hex1)
    /\ WellFormed(hex2)
    /\ HexToRgb(hex1).rgb # HexToRgb(hex2).rgb
    /\ matches
    /\ ColorsMatchResult(hex2, hex1, color_tolerance)

(* ------------------ claims on the color input validation --------------- *)

\* the string, after an optional leading '#', is not six hexadecimal digits
Malformed(hex) ==
    LET h == IF hex # << >> /\ Head(hex) = "#" THEN Tail(hex) ELSE hex
    IN  \/ Len(h) # 6
        \/ \E i \in 1..Len(h) :
              h[i] \notin { "0", "1", "2", "3", "4", "5", "6", "7", "8", "9",
                            "A", "B", "C", "D", "E", "F",
                            "a", "b", "c", "d", "e", "f" }

\* C21: a hex color string of incorrect length or with non-hex digits given
\* to hex_to_rgb, colors_match or find_pixels_by_color (through
\* random_pixel_select) is an error raised to the caller: the call does not
\* return a color, False or an empty pixel list
C21_MalformedHexRaises ==
    /\ (stage = "returned" /\ fn = "hex_to_rgb" /\ Malformed(hex1)) =>
          exc # "none"
    /\ (stage = "returned" /\ fn = "colors_match"
           /\ (Malformed(hex1) \/ Malformed(hex2))) =>
          exc # "none"
    /\ (stage = "returned" /\ fn = "random_pixel_select" /\ Malformed(target_hex)) =>
          exc # "none"

(* ------------------ claims on the composed path's end ------------------ *)

\* C28: whenever the iterative composition returns and the last position
\* reached (the end of the last appended segment, or start if none) is
\* within the tolerance of the target, the returned path ends with the
\* target, also when the segment that lands within the tolerance was
\* retrieved in the last permitted iteration (stated for compositions that
\* are permitted at least one iteration)
C28_LandedEndsWithTarget ==
    (IterativeReturned /\ max_iterations >= 1 /\ WithinTolerance(current_pos)) =>
       (ret # << >> /\ ret[Len(ret)] = target_pos)

\* C29: an iteratively composed path is continuous under the default
\* configuration (smoothing on): its first point is start, and the first
\* point of every segment, which is dropped at a seam, is the position the
\* segment was built from (the last point of the path accumulated so far)
C29_SeamsAreDuplicates ==
    (IterativeReturned /\ smoothing /\ segments # << >>) =>
       /\ ret[1] = start_pos
       /\ \A i \in 1..Len(segments) : segments[i][1] = BuiltFrom(i)

(* ------------------------ claims on the movements ---------------------- *)

\* the path the last call is to execute: the argument of _execute_path,
\* the path a movement returns unless it was asked to visualize only
ToExecute ==
    IF op = "_execute_path" THEN executed_path
    ELSE IF visualize THEN << >> ELSE ret

\* the first n requests are moves to the first n waypoints, in path order
MovesAlong(path, n) ==
    /\ n <= Len(path)
    /\ n <= Len(injected)
    /\ \A i \in 1..n : injected[i].kind = "moveTo" /\ injected[i].at = path[i]

\* the duration <<n, d>> is (1 / sample_rate) * m for an m between the ends
\* of speed_range (which are kept in tenths)
PacedBySpeedRange(duration) ==
    /\ speed_range[1] * duration[2] <= 10 * sample_rate * duration[1]
    /\ 10 * sample_rate * duration[1] <= speed_range[2] * duration[2]

\* C22: _execute_path issues exactly one pointer move per waypoint, in path
\* order: first to path[0], then to every later waypoint with a delay of
\* (1 / sample_rate) * m, m between the ends of speed_range; an empty path
\* issues no pointer move
C22_OneMovePerWaypoint ==
    (pc = "returned"
       /\ op \in {"_execute_path", "move_mouse_to_target", "move_mouse"}
       /\ err = "none" /\ fault = "none") =>
       /\ executed_path = ToExecute
       /\ Len(injected) = Len(ToExecute)
       /\ MovesAlong(ToExecute, Len(injected))
       /\ \A i \in 2..Len(injected) : PacedBySpeedRange(injected[i].duration)

\* a path of three waypoints was executed at two different speeds
C22_Witness ==
    /\ pc = "returned"
    /\ op = "_execute_path"
    /\ fault = "none"
    /\ sample_rate = DefaultSampleRate
    /\ Len(injected) = 3
    /\ Len(executed_path) = 3
    /\ injected[2].duration # injected[3].duration

\* C23 as claimed: a failure of the pointer collaborator during the path
\* execution propagates unchanged to the caller of _execute_path,
\* move_mouse_to_target, move_mouse and move_mouse_and_click
C23_FailurePropagates ==
    (pc = "returned" /\ fault # "none"
       /\ op \in {"_execute_path", "move_mouse_to_target", "move_mouse",
                  "move_mouse_and_click"}) =>
       err = fault

\* C23: a failure of the pointer collaborator during the path execution
\* propagates unchanged to the caller of _execute_path and of
\* move_mouse_to_target, with no request after the failed one (no retry);
\* move_mouse and move_mouse_and_click catch it and return False, and no
\* click follows a failed move
C23_PropagatesOrFalse ==
    (pc = "returned" /\ fault # "none") =>
       /\ op \in {"_execute_path", "move_mouse_to_target"} =>
            /\ err = fault
            /\ ret = << >>
            /\ Len(injected) < Len(executed_path)
            /\ MovesAlong(executed_path, Len(injected))
       /\ op \in {"move_mouse", "move_mouse_and_click"} =>
            /\ err = "none"
            /\ success = "False"
            /\ MovesAlong(executed_path, Len(injected))

\* a move of move_mouse failed after the first move was made, and
\* move_mouse returned False
C23_Witness ==
    /\ pc = "returned"
    /\ op = "move_mouse"
    /\ fault # "none"
    /\ Len(injected) >= 1
    /\ Len(injected) < Len(executed_path)
    /\ success = "False"
    /\ err = "none"

\* C24: move_mouse and move_mouse_and_click return True only when the
\* iteratively composed path ended within the tolerance of the target, and
\* no click is issued after a composition that gave up early
C24_TrueOnlyWhenReached ==
    (pc = "returned" /\ use_iterative_movement
       /\ op \in {"move_mouse", "move_mouse_and_click"}) =>
       /\ success = "True" => (ret # << >> /\ WithinTolerance(ret[Len(ret)]))
       /\ (\E i \in 1..Len(injected) : injected[i].kind # "moveTo") =>
            (ret # << >> /\ WithinTolerance(ret[Len(ret)]))

\* the trajectories of the corpus file that have at least two points
RECURSIVE Usable(_)
Usable(file) ==
    IF file = << >> THEN << >>
    ELSE IF Len(Head(file)) >= 2 THEN << Head(file) >> \o Usable(Tail(file))
    ELSE Usable(Tail(file))

\* C25: after construction no query, composition or execution operation
\* changes paths, displacements or the index; smoothing or translating a
\* retrieved trajectory leaves the stored trajectory as it was loaded, so
\* that a retrieval of an index yields the stored points
C25_BankReadOnly ==
    /\ [][ pc \notin {"new", "failed"} =>
             (paths' = paths /\ displacements' = displacements /\ kd_tree' = kd_tree) ]_vars
    /\ [] ( (pc = "returned" /\ op # "__init__") => paths = Usable(corpus) )
    /\ [] ( (pc = "returned" /\ op = "get_path_for_displacement" /\ err = "none"
               /\ ~smoothing) =>
              \A i \in 1..Len(ret) :
                 << ret[i][1], ret[i][2] >> = Usable(corpus)[sel.index + 1][i] )

\* a stored trajectory of three points was retrieved and smoothed: the
\* path handed out differs from the stored points
C25_Witness ==
    /\ pc = "returned"
    /\ op = "get_path_for_displacement"
    /\ err = "none"
    /\ smoothing
    /\ Len(ret) = 3
    /\ ret[1] # << paths[sel.index + 1][1][1], paths[sel.index + 1][1][2], 1 >>
    /\ paths = Usable(corpus)

(* ----------------------- claims on the augmentation -------------------- *)

\* the point turned counterclockwise about the origin by whole quarter turns
Turned(p, angle) ==
    CASE angle % 360 = 0 -> p
      [] angle % 360 = 90 -> << -p[2], p[1] >>
      [] angle % 360 = 180 -> << -p[1], -p[2] >>
      [] angle % 360 = 270 -> << p[2], -p[1] >>

\* the copies, turned by the angle, of the trajectories
Copy(originals, angle) ==
    [i \in 1..Len(originals) |->
       [j \in 1..Len(originals[i]) |-> Turned(originals[i][j], angle)]]

\* the copies of the trajectories for every angle in order
RECURSIVE Copies(_, _)
Copies(originals, angles) ==
    IF angles = << >> THEN << >>
    ELSE Copy(originals, Head(angles)) \o Copies(originals, Tail(angles))

\* augment_mouse_paths was called on an input file that exists
Augmentation == input_file.exists /\ (output_file.exists \/ total_paths # -1)

C27_SaveAppendsOnce ==
    [][(PressS \/ SaveAtExit) => save_file'.paths = recorder_paths]_vars

\* C30: once run() has handled the window-close event, recording
\* eventually becomes false and the sampling thread ends
C30_SamplingEndsAfterClose ==
    (recorder_pc = "closing") ~> (~recording /\ sampling_thread # "alive")

====
